---- MODULE Spec2Model ----
(***************************************************************************)
(* Model of the autoclicker core: the JobExecutor action interpreter       *)
(* (core/job_executor.py) and the JobManager / Observer thread lifecycle   *)
(* (core/job_manager.py, core/observer.py).                                *)
(***************************************************************************)
EXTENDS Integers, Sequences, FiniteSets, TLC

(***************************************************************************)
(* Bounds of the model.                                                    *)
(***************************************************************************)
MaxActions == 2
MaxRuns == 2
MaxFallbackLen == 2
MaxNesting == 4
MaxExecutors == 2
MaxObserverThreads == 2
MaxListLen == 2
MaxBatch == 2
MaxInterval == 3
MaxTime == 8
MaxReads == 3
MaxConditions == 2

(***************************************************************************)
(* Program constants.                                                      *)
(***************************************************************************)
MAX_FALLBACK_DEPTH == 3
ABSOLUTE_ACTION_MAX_RETRIES == 10
MAX_HISTORY_LENGTH == 20
MIN_REPETITIONS_FOR_LOOP_DETECTION == 3

\* A jump target that is None (or any non-integer / negative value).
NoneIdx == 0 - 1
\* The index _execute_action_with_fallback returns after a fatal error.
FatalIdx == 0 - 1

VARIABLES
    \* ---- the Job run by the JobExecutor
    actions,              \* job.actions: sequence of Action records
    run_condition,        \* job.run_condition: "None", "JobRunCondition", "invalid"
    delay_between_runs,   \* job.params["delay_between_runs_s"] (0 or positive)
    job_running,          \* job.running
    \* ---- JobExecutor fields
    is_executing,         \* _is_executing
    stop_event,           \* _stop_event.is_set()
    execution_thread,     \* _execution_thread is not None
    current_run_count,    \* _current_run_count
    \* ---- the execution thread (_execute_loop and the calls below it)
    pc,                   \* position of the thread
    current_action_index, \* local of _execute_loop
    execution_history,    \* local of _execute_loop
    should_continue,      \* should_continue_job_run_cycle and where it came from
    stack,                \* frames of _execute_action_with_fallback, top last
    ret,                  \* value being returned by the frame on top
    \* ---- observations used to state the properties
    prev_visit,           \* the previous top-level visit of this pass
    raised,               \* some action.execute() raised
    \* ---- JobManager
    jobs,                 \* jobs: name -> [enabled, running]
    running_executors,    \* running_executors: name -> executor (0: no entry)
    triggers,             \* triggers: name -> list of TriggerActions (<<>>: no entry)
    current_profile_name, \* current_profile_name
    lock,                 \* the thread that holds JobManager.lock (0: free)
    shared_conditions,    \* condition_manager.shared_conditions: id -> Condition
    unlocked_write,       \* the step just taken changed a registry of
                          \* JobManager on a thread that did not hold the lock
    \* ---- the JobExecutor objects created by start_job
    executors,            \* executor -> its fields and the state of its thread
    \* ---- Observer
    observer,             \* running, is_globally_enabled, _stop_event,
                          \* _observer_thread, _triggers
    \* ---- threads
    calls,                \* the calls of the user's thread in progress, top last
    observer_threads,     \* observer thread -> "none", "alive"
    \* ---- ConditionManager on its own
    cm_call,              \* the last call of ConditionManager or of
                          \* create_condition: its arguments and what it returned
    \* ---- Observer._execute_triggered_actions on its own
    dispatch,             \* the batch, the position in it, the calls made
    \* ---- Observer._observer_loop polling one Trigger
    poll,                 \* the clock, the Trigger, and when it was evaluated
    \* ---- JobManager as the calls of one thread change it
    registry,             \* jobs with their keys, running executors, key
                          \* bindings, the recording flag and the profile files
    \* ---- OSInteractionClient._send_request
    bridge,               \* one request: how far it is, what was read, how it ended
    \* ---- Observer.lock, AI-brain mode and the map of monitored conditions
    ai,                   \* the lock, the mode, the map, the shared conditions
                          \* and where the two threads are
    \* ---- the conditions of one Trigger being evaluated
    evaluation            \* the Trigger, the values of its conditions, the
                          \* results of the two evaluations

execVars == <<actions, run_condition, delay_between_runs, job_running,
              is_executing, stop_event, execution_thread, current_run_count,
              pc, current_action_index, execution_history, should_continue,
              stack, ret, prev_visit, raised>>

mgrVars == <<jobs, running_executors, triggers, current_profile_name, lock,
             shared_conditions, unlocked_write,
             executors, observer, calls, observer_threads>>

\* The variables of the parts that are studied on their own.
auxVars == <<cm_call, dispatch, poll, registry, bridge, ai, evaluation>>

\* The variables of the other parts, for each part.
notCm == <<dispatch, poll, registry, bridge, ai, evaluation>>
notDispatch == <<cm_call, poll, registry, bridge, ai, evaluation>>
notPoll == <<cm_call, dispatch, registry, bridge, ai, evaluation>>
notRegistry == <<cm_call, dispatch, poll, bridge, ai, evaluation>>
notBridge == <<cm_call, dispatch, poll, registry, ai, evaluation>>
notAi == <<cm_call, dispatch, poll, registry, bridge, evaluation>>
notEvaluation == <<cm_call, dispatch, poll, registry, bridge, ai>>

vars == <<execVars, mgrVars, auxVars>>

(***************************************************************************)
(* Actions and fallback data.                                              *)
(***************************************************************************)
\* An Action with no jump targets, built from valid data.
PlainAction ==
    [type |-> "click", condition_id |-> "None", met |-> NoneIdx, notmet |-> NoneIdx,
     abs |-> FALSE, fb |-> <<>>, valid |-> TRUE]

\* Fallback data from which create_action yields no Action.
InvalidData == [PlainAction EXCEPT !.valid = FALSE]

RECURSIVE Chain(_)
\* A fallback sequence of one entry, nested d deep.
Chain(d) == IF d = 0 THEN <<>> ELSE << [PlainAction EXCEPT !.fb = Chain(d - 1)] >>

\* A fallback sequence of w plain entries.
Wide(w) == [i \in 1..w |-> PlainAction]

FallbackSequences ==
    {Chain(d) : d \in 0..MaxNesting}
    \cup {Wide(w) : w \in 1..MaxFallbackLen}
    \cup {<< [PlainAction EXCEPT !.abs = TRUE] >>,
          << InvalidData, PlainAction >>,
          << [PlainAction EXCEPT !.fb = Wide(MaxFallbackLen)], PlainAction >>}

Targets(n) == {NoneIdx} \cup 0..n

\* Jobs in which action k carries explicit jump targets.
JumpJobs ==
    { [i \in 1..MaxActions |->
          IF i = k THEN [PlainAction EXCEPT !.met = m, !.notmet = nm] ELSE PlainAction] :
      k \in 1..MaxActions, m \in Targets(MaxActions), nm \in Targets(MaxActions) }

\* Jobs whose first action carries explicit jump targets and a fallback.
JumpFallbackJobs ==
    { [i \in 1..MaxActions |->
          IF i = 1 THEN [PlainAction EXCEPT !.met = m, !.notmet = nm, !.fb = Wide(1)]
                   ELSE PlainAction] :
      m \in Targets(MaxActions), nm \in Targets(MaxActions) }

\* Jobs whose first action is absolute and / or carries a fallback sequence.
FallbackJobs ==
    { [i \in 1..n |->
          IF i = 1 THEN [PlainAction EXCEPT !.abs = a, !.fb = f] ELSE PlainAction] :
      n \in 1..MaxActions, a \in BOOLEAN, f \in FallbackSequences }

Jobs == JumpJobs \cup JumpFallbackJobs \cup FallbackJobs \cup {<<>>}

\* Jobs on which every kind of run condition and delay is tried.
SmallJobs == {<<>>, <<PlainAction>>, << [PlainAction EXCEPT !.fb = Wide(1)] >>}

RunConditionKinds == {"None", "JobRunCondition", "invalid"}

\* The jobs handed to the executor: actions, run_condition and
\* params["delay_between_runs_s"] (0, or some positive delay).
JobConfigs ==
    {[actions |-> j, run_condition |-> "JobRunCondition", delay |-> 1] : j \in Jobs}
    \cup {[actions |-> j, run_condition |-> r, delay |-> d] :
            j \in SmallJobs, r \in RunConditionKinds, d \in {0, 1}}

(***************************************************************************)
(* Helpers of the interpreter.                                             *)
(***************************************************************************)
IsJumpTarget(t) == t \in Int /\ t >= 0

\* job_executor.py 203-206
NextIndexIfMet(act, idx) == IF IsJumpTarget(act.met) THEN act.met ELSE idx + 1

\* job_executor.py 259-262, 265-268, 270-273
NextIndexIfNotMet(act, idx) == IF IsJumpTarget(act.notmet) THEN act.notmet ELSE idx + 1

Signature(idx) == <<idx, actions[idx + 1].type, actions[idx + 1].condition_id>>

\* Variant: the signature is not recorded.
AppendHistory_Dropped(h, sig) == h

\* job_executor.py 328-330
AppendHistory(h, sig) ==
    LET a == Append(h, sig)
    IN IF Len(a) > MAX_HISTORY_LENGTH THEN Tail(a) ELSE a

\* Variant: the loop is detected one visit later.
LoopDetected_OneVisitLater(h, sig) ==
    /\ Len(h) >= MIN_REPETITIONS_FOR_LOOP_DETECTION + 1
    /\ \A i \in (Len(h) - MIN_REPETITIONS_FOR_LOOP_DETECTION)..Len(h) : h[i] = sig

\* job_executor.py 332-334
LoopDetected(h, sig) ==
    /\ Len(h) >= MIN_REPETITIONS_FOR_LOOP_DETECTION
    /\ \A i \in (Len(h) - MIN_REPETITIONS_FOR_LOOP_DETECTION + 1)..Len(h) : h[i] = sig

\* Variant: one retry too many for an absolute action.
NewFrame_ExtraRetry(act, depth) ==
    [act |-> act, depth |-> depth,
     retries |-> IF act.abs THEN ABSOLUTE_ACTION_MAX_RETRIES + 1 ELSE 1,
     met |-> FALSE, fbi |-> 0, any |-> FALSE,
     calls |-> 0, waits |-> 0, fbres |-> <<>>]

\* job_executor.py 165-166: the locals of a fresh call.
NewFrame(act, depth) ==
    [act |-> act, depth |-> depth,
     retries |-> IF act.abs THEN ABSOLUTE_ACTION_MAX_RETRIES ELSE 1,
     met |-> FALSE, fbi |-> 0, any |-> FALSE,
     calls |-> 0, waits |-> 0, fbres |-> <<>>]

\* Variant: the boundary checks are missing.
StopRequested_Unchecked == FALSE

\* job_executor.py 169, 231, 316: the stop check at a boundary.
StopRequested == ~is_executing \/ stop_event

\* Variant: an error raised by check_continue lets the pass start.
ShouldContinue_ErrorProceeds(o) == o \in {"none", "true", "raise"}

\* job_executor.py 301: whether the outcome of the run condition lets a pass start.
ShouldContinue(o) == o \in {"none", "true"}

Top == stack[Len(stack)]
SetTop(f) == [stack EXCEPT ![Len(stack)] = f]
Pop == SubSeq(stack, 1, Len(stack) - 1)

NoRet == [met |-> FALSE, next |-> 0, line |-> 0]
NoVisit == [idx |-> NoneIdx, met |-> FALSE, result |-> FALSE]

\* Variant: a successful fallback takes the condition-met target.
AfterFallback_JumpsAsMet(f, idx) ==
    [met |-> f.any,
     next |-> IF f.any THEN NextIndexIfMet(f.act, idx) ELSE NextIndexIfNotMet(f.act, idx),
     line |-> IF f.any THEN 260 ELSE 266]

\* job_executor.py 257-268: the return after the fallback loop.
AfterFallback(f, idx) ==
    [met |-> f.any, next |-> NextIndexIfNotMet(f.act, idx),
     line |-> IF f.any THEN 260 ELSE 266]

(***************************************************************************)
(* JobManager and Observer: names, threads and records.                    *)
(***************************************************************************)
JobNames == {"j1"}
TriggerNames == {"t1"}
ProfileNames == {"default", "work"}
DEFAULT_PROFILE_NAME == "default"

\* The threads that call into JobManager: the observer threads (each one
\* runs Observer._observer_loop) and the user's thread, which is the GUI
\* thread or the thread on which the keyboard library runs a hotkey
\* callback; one request of the user is in progress at a time.
ObserverThreads == 1..MaxObserverThreads
UiThread == MaxObserverThreads + 1
Executors == 1..MaxExecutors
NoThread == 0
NoExecutor == 0

\* trigger.py 44-56
TriggerAction(ty, tg) == [action_type |-> ty, target |-> tg]

\* The action lists of the triggers of a profile.
TriggerActionLists ==
    {<<TriggerAction("start_job", j)>> : j \in JobNames}
    \cup {<<TriggerAction("stop_job", j)>> : j \in JobNames \cup {"all"}}
    \cup {<<TriggerAction("switch_profile", "work")>>}
    \cup {<<TriggerAction("switch_profile", "work"), TriggerAction("start_job", "j1")>>}

NoJob == [present |-> FALSE, enabled |-> FALSE, running |-> FALSE]
NoTrigger == [present |-> FALSE, actions |-> <<>>]

\* What config_loader.load_profile can hand to JobManager.load_profile: the
\* profile files are data of the environment.
LoadableJobs ==
    {[j \in JobNames |-> NoJob]}
    \cup {[j \in JobNames |-> [present |-> TRUE, enabled |-> en, running |-> FALSE]] :
            en \in BOOLEAN}

LoadableTriggers ==
    {[n \in TriggerNames |-> NoTrigger]}
    \cup {[n \in TriggerNames |-> [present |-> TRUE, actions |-> a]] :
            a \in TriggerActionLists}

\* The shared_conditions list of a profile file, and the Condition that the
\* shared condition editor hands to add_shared_condition.
SharedColorCondition ==
    [type |-> "color_at_position", is_dict |-> TRUE, id |-> "c1",
     name |-> <<"n1">>, params |-> "ok"]

LoadableConditions ==
    {[is_list |-> TRUE, items |-> <<>>],
     [is_list |-> TRUE, items |-> <<SharedColorCondition>>]}

\* A JobExecutor as JobManager sees it: its flags, its thread, and whether
\* the Job object it holds is no longer the one in JobManager.jobs.
NoExecutorObject ==
    [job |-> "", is_executing |-> FALSE, stop_event |-> FALSE,
     execution_thread |-> FALSE, thread |-> "none", stale |-> FALSE]

\* job_executor.py 83-100
NewExecutor(name) == [NoExecutorObject EXCEPT !.job = name]

\* A call of the user's thread that is in progress.
Frame(op, at) ==
    [op |-> op, pc |-> at, job |-> "", profile |-> "", force |-> FALSE,
     ex |-> NoExecutor, todo |-> <<>>]

\* The JobManager with its executors, its Observer and its callers, as one
\* value; within_bounds records that no operation needed more executors or
\* threads than the model has. thread is the thread that takes the step, and
\* unlocked_write tells whether the step has changed a registry while that
\* thread did not hold the lock.
Manager ==
    [jobs |-> jobs, running_executors |-> running_executors,
     triggers |-> triggers, current_profile_name |-> current_profile_name,
     lock |-> lock, shared_conditions |-> shared_conditions,
     executors |-> executors, observer |-> observer,
     calls |-> calls, observer_threads |-> observer_threads,
     thread |-> UiThread, unlocked_write |-> FALSE,
     within_bounds |-> TRUE]

\* The manager in a step of the thread t.
OnThread(t) == [Manager EXCEPT !.thread = t]

\* with self.lock: the thread of the step takes the lock, and gives it back.
Locked(m) == [m EXCEPT !.lock = m.thread]
Released(m) == [m EXCEPT !.lock = NoThread]

\* The step changes jobs, triggers or the shared conditions.
RegistryWritten(m) == [m EXCEPT !.unlocked_write = @ \/ m.lock # m.thread]

TopCall(m) == m.calls[Len(m.calls)]
At(op, at) == calls # <<>> /\ TopCall(Manager).op = op /\ TopCall(Manager).pc = at
Returned(m) == [m EXCEPT !.calls = SubSeq(@, 1, Len(@) - 1)]
Goto(m, f) == [m EXCEPT !.calls[Len(m.calls)] = f]
Called(m, f) == [m EXCEPT !.calls = Append(@, f)]

\* JobManager.lock is an RLock: a thread takes it when it is free or its own.
CanLock(t) == lock \in {NoThread, t}

\* An executor object is dropped once nothing refers to it and its thread
\* is not running.
Referenced(m, e) ==
    \/ \E j \in JobNames : m.running_executors[j] = e
    \/ \E i \in 1..Len(m.calls) : m.calls[i].ex = e

Collected(m) ==
    [m EXCEPT !.executors =
        [e \in Executors |->
            IF m.executors[e].thread # "alive" /\ ~Referenced(m, e)
            THEN NoExecutorObject ELSE m.executors[e]]]

\* The least of a set of numbers, or 0 when there is none.
Least(S) == IF S = {} THEN 0 ELSE CHOOSE x \in S : \A y \in S : x <= y

FreeExecutor(m) == Least({e \in Executors : m.executors[e] = NoExecutorObject})

\* A thread identity that no live thread and no reference uses.
FreeObserverThread(m) ==
    Least({t \in ObserverThreads :
             m.observer_threads[t] # "alive" /\ m.observer._observer_thread # t})

(***************************************************************************)
(* Conditions: create_condition and Condition.check (core/condition.py)    *)
(***************************************************************************)
\* The ids that condition data carry, and the ids that uuid.uuid4().hex
\* hands out to a Condition built without one.
ConditionIds == {"c1", "c2"}
UuidIds == {"u1", "u2"}
RegistryIds == ConditionIds \cup UuidIds

\* NoneCondition.TYPE, and the keys of _CONDITION_CLASSES: NoneCondition and
\* one of the classes that look at the screen.
NONE_TYPE == "none"
ConditionClasses == {NONE_TYPE, "color_at_position"}

\* A name is a sequence of parts: <<>> is a missing or empty name, and
\* f"{a}_{b}" is a \o <<b>>. NotAString is a name that is not a str, such
\* as the number 5.
NotAString == <<"<int>">>

\* The value that is not a dict (None, a list, a string).
NotADict == [type |-> "", is_dict |-> FALSE, id |-> "", name |-> <<>>, params |-> "ok"]

\* Condition data. type "" is a missing, empty or non-string type, and
\* "bogus" is a type that is no key of _CONDITION_CLASSES; id "" is a
\* missing id; params are fine ("ok"), hold a region that
\* _validate_basic_params rejects ("bad_region"), or make the constructor of
\* the class raise ("raises").
ConditionData ==
    {NotADict}
    \cup [type : {"", NONE_TYPE, "color_at_position", "bogus"},
          is_dict : {TRUE},
          id : {"", "c1"},
          name : {<<>>, <<"n1">>, NotAString},
          params : {"ok", "bad_region", "raises"}]

\* No Condition object: None, or an empty slot of the registry.
NoCondition == [type |-> "", valid |-> FALSE, present |-> FALSE, id |-> "", name |-> <<>>]

\* condition.py 118-153: Condition.__init__ for the class of type ty.
NewCondition(ty, id, name, params, uuid) ==
    LET the_id == IF id # "" THEN id ELSE uuid
    IN [type |-> ty,
        valid |-> params # "bad_region",
        present |-> TRUE,
        id |-> the_id,
        name |-> IF name # <<>> /\ name # NotAString THEN name ELSE <<ty, the_id>>]

\* condition.py 207-210: NoneCondition.__init__ calls name.strip() on any
\* name that is truthy, which raises when the name is not a str.
NewNoneCondition(id, name, params, uuid) ==
    IF name = NotAString THEN [raised |-> TRUE, obj |-> NoCondition]
    ELSE [raised |-> FALSE,
          obj |-> NewCondition(NONE_TYPE, id,
                               IF name # <<>> THEN name ELSE <<"Always True">>,
                               params, uuid)]

\* f"{condition_name or default}_{suffix}"
NameOr(name, default, suffix) == (IF name # <<>> THEN name ELSE <<default>>) \o <<suffix>>

\* condition.py 1349-1379: create_condition(data); uuid is the id that
\* uuid4 gives if the data has none. The result tells whether the call
\* raised and, if not, the Condition it returned.
CreateCondition(data, uuid) ==
    IF ~data.is_dict THEN NewNoneCondition("", <<>>, "ok", uuid)
    ELSE IF data.type = ""
    THEN NewNoneCondition(data.id, data.name, data.params, uuid)
    ELSE IF data.type \notin ConditionClasses
    THEN NewNoneCondition(data.id, NameOr(data.name, "UnknownType", data.type),
                          data.params, uuid)
    ELSE IF data.type = NONE_TYPE /\ data.name = NotAString
    THEN NewNoneCondition(data.id, NameOr(data.name, "Errored", "UNEXPECTED_ERROR"),
                          data.params, uuid)
    ELSE IF data.type = NONE_TYPE
    THEN NewNoneCondition(data.id, data.name, data.params, uuid)
    ELSE IF data.params = "raises"
    THEN NewNoneCondition(data.id, NameOr(data.name, "Errored", "INVALID"),
                          data.params, uuid)
    ELSE [raised |-> FALSE,
          obj |-> NewCondition(data.type, data.id, data.name, data.params, uuid)]

\* condition.py 156-163 and 212-214, and the check() of the other classes:
\* what check() can return. An invalid Condition gives False, a valid
\* NoneCondition gives True, and a valid Condition of another class gives
\* what the screen says.
CheckResults(c) ==
    IF ~c.valid THEN {FALSE}
    ELSE IF c.type = NONE_TYPE THEN {TRUE}
    ELSE BOOLEAN

(***************************************************************************)
(* ConditionManager (core/condition_manager.py)                            *)
(***************************************************************************)
\* condition_manager.py 11
EmptyRegistry == [i \in RegistryIds |-> NoCondition]

\* condition_manager.py 22-48: one item of the list given to
\* load_shared_conditions.
LoadedItem(reg, data, uuid) ==
    LET r == CreateCondition(data, uuid)
    IN IF ~data.is_dict \/ data.type = NONE_TYPE THEN reg
       ELSE IF r.raised THEN reg
       ELSE IF r.obj.present /\ r.obj.id # "" /\ r.obj.type # NONE_TYPE
       THEN [reg EXCEPT ![r.obj.id] = r.obj]
       ELSE reg

RECURSIVE LoadedItems(_, _, _)
\* condition_manager.py 22: the loop over the list; the n-th Condition that
\* needs an id gets the n-th of uuids.
LoadedItems(reg, items, uuids) ==
    IF items = <<>> THEN reg
    ELSE LoadedItems(LoadedItem(reg, Head(items), Head(uuids)), Tail(items), Tail(uuids))

\* The value that is not a list.
NotAList == [is_list |-> FALSE, items |-> <<>>]

\* condition_manager.py 14-49: load_shared_conditions.
LoadSharedConditions(reg, conditions_data_list, uuids) ==
    IF ~conditions_data_list.is_list THEN EmptyRegistry
    ELSE LoadedItems(EmptyRegistry, conditions_data_list.items, uuids)

\* condition_manager.py 73-86: add_or_update_shared_condition; the result
\* is the registry and the value returned.
AddOrUpdateSharedCondition(reg, condition_obj) ==
    IF ~condition_obj.present \/ condition_obj.id = ""
    THEN [reg |-> reg, result |-> FALSE]
    ELSE IF condition_obj.type = NONE_TYPE THEN [reg |-> reg, result |-> FALSE]
    ELSE [reg |-> [reg EXCEPT ![condition_obj.id] = condition_obj], result |-> TRUE]

\* condition_manager.py 102-108: the data handed to create_condition.
UpdatedConditionData(reg, condition_id, data) ==
    [type |-> data.type, is_dict |-> TRUE, id |-> condition_id,
     name |-> IF data.name = <<>> THEN reg[condition_id].name ELSE data.name,
     params |-> data.params]

\* update_shared_condition_from_data without the test of line 115.
UpdateSharedConditionFromData_NoTypeCheck(reg, condition_id, data) ==
    IF condition_id = "" \/ ~data.is_dict THEN [reg |-> reg, result |-> FALSE]
    ELSE IF ~reg[condition_id].present THEN [reg |-> reg, result |-> FALSE]
    ELSE IF data.type = NONE_TYPE THEN [reg |-> reg, result |-> FALSE]
    ELSE LET r == CreateCondition(UpdatedConditionData(reg, condition_id, data), "u1")
         IN IF r.raised \/ ~r.obj.present
            THEN [reg |-> reg, result |-> FALSE]
            ELSE [reg |-> [reg EXCEPT ![condition_id] = r.obj], result |-> TRUE]

\* condition_manager.py 88-124: update_shared_condition_from_data.
UpdateSharedConditionFromData(reg, condition_id, data) ==
    IF condition_id = "" \/ ~data.is_dict THEN [reg |-> reg, result |-> FALSE]
    ELSE IF ~reg[condition_id].present THEN [reg |-> reg, result |-> FALSE]
    ELSE IF data.type = NONE_TYPE THEN [reg |-> reg, result |-> FALSE]
    ELSE LET r == CreateCondition(UpdatedConditionData(reg, condition_id, data), "u1")
         IN IF r.raised \/ ~r.obj.present \/ r.obj.type = NONE_TYPE
            THEN [reg |-> reg, result |-> FALSE]
            ELSE [reg |-> [reg EXCEPT ![condition_id] = r.obj], result |-> TRUE]

\* condition_manager.py 126-137: delete_shared_condition.
DeleteSharedCondition(reg, condition_id) ==
    IF condition_id = "" THEN [reg |-> reg, result |-> FALSE]
    ELSE IF reg[condition_id].present
    THEN [reg |-> [reg EXCEPT ![condition_id] = NoCondition], result |-> TRUE]
    ELSE [reg |-> reg, result |-> FALSE]

(***************************************************************************)
(* JobManager.start_job / stop_job / stop_all_running_jobs                 *)
(***************************************************************************)
\* job_manager.py 551-561: the part of start_job under the lock; ex is the
\* executor it registered, if it did.
StartJobRegister(m, name) ==
    IF \/ ~m.jobs[name].present
       \/ ~m.jobs[name].enabled
       \/ m.running_executors[name] # NoExecutor
    THEN [m |-> m, ex |-> NoExecutor]
    ELSE LET e == FreeExecutor(m)
         IN IF e = NoExecutor
            THEN [m |-> [m EXCEPT !.within_bounds = FALSE], ex |-> NoExecutor]
            ELSE [m |-> [m EXCEPT !.executors[e] = NewExecutor(name),
                                  !.running_executors[name] = e,
                                  !.jobs[name].running = TRUE],
                  ex |-> e]

\* job_manager.py 562 with job_executor.py 103-126: executor.start(), after
\* the lock is released.
ExecutorStarted(m, e) ==
    IF m.executors[e].is_executing THEN m
    ELSE [m EXCEPT !.executors[e].is_executing = TRUE,
                   !.executors[e].stop_event = FALSE,
                   !.executors[e].execution_thread = TRUE,
                   !.executors[e].thread = "alive"]

\* job_manager.py 550-569
StartJob(m, name) ==
    LET r == StartJobRegister(m, name)
    IN IF r.ex = NoExecutor THEN r.m ELSE ExecutorStarted(r.m, r.ex)

\* job_manager.py 574-582: the part of stop_job under the lock; ex is the
\* executor it took out of running_executors, if there was one.
StopJobPop(m, name) ==
    IF ~m.jobs[name].present THEN [m |-> m, ex |-> NoExecutor]
    ELSE IF m.running_executors[name] = NoExecutor
    THEN [m |-> [m EXCEPT !.jobs[name].running = FALSE], ex |-> NoExecutor]
    ELSE [m |-> [m EXCEPT !.running_executors[name] = NoExecutor,
                          !.jobs[name].running = FALSE],
          ex |-> m.running_executors[name]]

\* job_executor.py 130: stop() is ignored.
StopIgnored(x) == ~x.is_executing /\ ~(x.execution_thread /\ x.thread = "alive")

\* job_manager.py 583-585 with job_executor.py 128-148: executor.stop(),
\* after the lock is released. With wait, join(timeout) returns when the
\* thread has ended or when the timeout has passed, and the code does the
\* same in both cases: the thread of the executor may still be alive.
ExecutorStopped(m, e) ==
    IF StopIgnored(m.executors[e]) THEN m
    ELSE [m EXCEPT !.executors[e].is_executing = FALSE,
                   !.executors[e].stop_event = TRUE,
                   !.executors[e].execution_thread = FALSE]

\* job_manager.py 571-585
StopJob(m, name) ==
    LET r == StopJobPop(m, name)
    IN IF r.ex = NoExecutor THEN r.m ELSE Collected(ExecutorStopped(r.m, r.ex))

RECURSIVE KeysOf(_)
\* list(self.running_executors.keys())
KeysOf(S) ==
    IF S = {} THEN <<>>
    ELSE LET k == CHOOSE x \in S : TRUE IN <<k>> \o KeysOf(S \ {k})

\* job_manager.py 603-606
JobsToStop(m) == KeysOf({j \in JobNames : m.running_executors[j] # NoExecutor})

RECURSIVE StopJobs(_, _)
\* job_manager.py 607-609
StopJobs(m, names) ==
    IF names = <<>> THEN m ELSE StopJobs(StopJob(m, Head(names)), Tail(names))

\* job_manager.py 602-609
StopAllRunningJobs(m) == StopJobs(m, JobsToStop(m))

(***************************************************************************)
(* JobManager.load_profile, with Observer.stop and Observer.start          *)
(***************************************************************************)
\* job_manager.py 185-188: the test made before the lock is taken. Shape
\* templates (other_data) also count as loaded data.
AlreadyLoadedAndNotForced(m, profile, force, other_data) ==
    /\ ~force
    /\ profile = m.current_profile_name
    /\ \/ \E j \in JobNames : m.jobs[j].present
       \/ \E n \in TriggerNames : m.triggers[n].present
       \/ other_data
       \/ \E i \in RegistryIds : m.shared_conditions[i].present

ObserverThreadAlive(m) ==
    /\ m.observer._observer_thread # NoThread
    /\ m.observer_threads[m.observer._observer_thread] = "alive"

\* job_manager.py 196-197 with 151-159 and observer.py 150-156:
\* set_global_enable(False), then stop_observer(wait=True). The join of
\* another thread returns when that thread has ended or when the timeout
\* has passed; the join of the calling thread raises, and stop_observer
\* catches it. In each case the observer thread may still be alive.
ObserverStopped(m) ==
    IF m.observer.running
    THEN [m EXCEPT !.observer.is_globally_enabled = FALSE,
                   !.observer.stop_event = TRUE,
                   !.observer.running = FALSE,
                   !.observer._observer_thread = NoThread]
    ELSE [m EXCEPT !.observer.is_globally_enabled = FALSE]

\* job_manager.py 141-149 with observer.py 126-148: start_observer().
ObserverStarted(m) ==
    IF m.observer.running \/ ObserverThreadAlive(m) THEN m
    ELSE LET nt == FreeObserverThread(m)
         IN IF nt = NoThread THEN [m EXCEPT !.within_bounds = FALSE]
            ELSE [m EXCEPT !.observer.is_globally_enabled = TRUE,
                           !.observer.stop_event = FALSE,
                           !.observer.running = TRUE,
                           !.observer._observer_thread = nt,
                           !.observer_threads[nt] = "alive"]

\* observer.py 68-90
TriggersLoaded(m) == [m EXCEPT !.observer._triggers = m.triggers]

\* job_manager.py 199-249: the profile data js, ts, cs replaces jobs,
\* triggers and shared conditions, so that running executors hold Job
\* objects of the old profile; the observer gets the new triggers and
\* start_observer() is called.
ProfileLoaded(m, profile, js, ts, cs) ==
    ObserverStarted(TriggersLoaded(RegistryWritten(
        [m EXCEPT !.jobs = js,
                  !.triggers = ts,
                  !.current_profile_name = profile,
                  !.shared_conditions = LoadSharedConditions(@, cs, <<"u1", "u2">>),
                  !.executors = [e \in Executors |->
                      IF m.executors[e] = NoExecutorObject THEN NoExecutorObject
                      ELSE [m.executors[e] EXCEPT !.stale = TRUE]]])))

\* job_manager.py 179-249, as one step of a thread that finds the lock free.
LoadProfile(m, profile, force, other_data, js, ts, cs) ==
    IF AlreadyLoadedAndNotForced(m, profile, force, other_data) THEN m
    ELSE Released(ProfileLoaded(ObserverStopped(StopAllRunningJobs(Locked(m))),
                                profile, js, ts, cs))

(***************************************************************************)
(* Observer._execute_triggered_actions                                     *)
(***************************************************************************)
\* str.lower() on the targets of the model.
Lower(target) == IF target \in {"all", "All", "ALL"} THEN "all" ELSE target

\* trigger.py 50
VALID_ACTIONS == {"start_job", "stop_job", "pause_job", "resume_job", "switch_profile"}

\* No call of JobManager.
NoCall == [target |-> "", op |-> "none"]

\* observer.py 285-287: the action is passed over by continue.
TargetMissing(a) ==
    LET action_requires_target == a.action_type \in VALID_ACTIONS
        is_valid_target ==
            a.target # "" \/ (a.action_type = "stop_job" /\ Lower(a.target) = "all")
    IN action_requires_target /\ ~is_valid_target

\* CallFor with the target compared with "all" as it is written.
CallFor_CaseSensitive(a) ==
    LET action_requires_target == a.action_type \in VALID_ACTIONS
        is_valid_target ==
            a.target # "" \/ (a.action_type = "stop_job" /\ a.target = "all")
    IN IF action_requires_target /\ ~is_valid_target THEN NoCall
       ELSE CASE a.action_type = "start_job" -> [target |-> a.target, op |-> "start_job"]
              [] a.action_type = "stop_job" /\ a.target = "all" ->
                   [target |-> "", op |-> "stop_all_running_jobs"]
              [] a.action_type = "stop_job" /\ a.target # "all" ->
                   [target |-> a.target, op |-> "stop_job"]
              [] a.action_type = "switch_profile" ->
                   [target |-> a.target, op |-> "load_profile"]
              [] OTHER -> NoCall

\* CallFor with PAUSE_JOB dispatched as a stop_job.
CallFor_PauseStops(a) ==
    IF TargetMissing(a) THEN NoCall
       ELSE CASE a.action_type = "start_job" -> [target |-> a.target, op |-> "start_job"]
              [] a.action_type = "stop_job" /\ Lower(a.target) = "all" ->
                   [target |-> "", op |-> "stop_all_running_jobs"]
              [] a.action_type \in {"stop_job", "pause_job"} /\ Lower(a.target) # "all" ->
                   [target |-> a.target, op |-> "stop_job"]
              [] a.action_type = "switch_profile" ->
                   [target |-> a.target, op |-> "load_profile"]
              [] OTHER -> NoCall

\* observer.py 285-296: the call of JobManager that is made for the action
\* a, if one is made.
CallFor(a) ==
    IF TargetMissing(a) THEN NoCall
       ELSE CASE a.action_type = "start_job" -> [target |-> a.target, op |-> "start_job"]
              [] a.action_type = "stop_job" /\ Lower(a.target) = "all" ->
                   [target |-> "", op |-> "stop_all_running_jobs"]
              [] a.action_type = "stop_job" /\ Lower(a.target) # "all" ->
                   [target |-> a.target, op |-> "stop_job"]
              [] a.action_type = "switch_profile" ->
                   [target |-> a.target, op |-> "load_profile"]
              [] OTHER -> NoCall

\* observer.py 289-296: the call made for one action, and what it does.
Dispatched(m, a, other_data, js, ts, cs) ==
    LET c == CallFor(a)
    IN CASE c.op = "start_job" -> StartJob(m, c.target)
         [] c.op = "stop_all_running_jobs" -> StopAllRunningJobs(m)
         [] c.op = "stop_job" -> StopJob(m, c.target)
         [] c.op = "load_profile" ->
              LoadProfile(m, c.target, FALSE, other_data, js, ts, cs)
         [] OTHER -> m

RECURSIVE ExecuteTriggeredActions(_, _, _, _, _, _)
\* observer.py 278-299: the batch ends after a profile switch and when the
\* stop event is set.
ExecuteTriggeredActions(m, batch, other_data, js, ts, cs) ==
    IF batch = <<>> THEN m
    ELSE LET a == Head(batch)
             after == Dispatched(m, a, other_data, js, ts, cs)
         IN IF TargetMissing(a)
            THEN ExecuteTriggeredActions(m, Tail(batch), other_data, js, ts, cs)
            ELSE IF CallFor(a).op = "load_profile" \/ after.observer.stop_event
            THEN after
            ELSE ExecuteTriggeredActions(after, Tail(batch), other_data, js, ts, cs)

(***************************************************************************)
(* JobManager: the jobs with their keys, the key bindings and the profile  *)
(* files, as the calls of one thread change them.                          *)
(***************************************************************************)
\* str.strip() on the names of the model.
Strip(s) == CASE s = " a" -> "a" [] s = " work" -> "work" [] s = " " -> "" [] OTHER -> s

\* job_manager.py 632-633: key.strip().lower() on the keys of the model.
CleanKey(k) == IF k = "F1" THEN "f1" ELSE k

RegistryKeys == {"a", "b"}
NameInputs == {"a", " a", "b", " "}
HotKeys == {"", "F1"}
StopKeys == {"", "f1", "f2"}
CleanKeys == {"f1", "f2"}
NotBound == ""

\* job.py 66-92: Job(name, hotkey=hotkey, stop_key=stop_key, enabled=enabled)
\* for a name that is not blank.
NewJob(name, hotkey, stop_key, enabled) ==
    [enabled |-> enabled, name |-> Strip(name), hotkey |-> hotkey,
     stop_key |-> stop_key]

\* A dict in insertion order is a sequence of entries with distinct keys.
DictEntry(k, job) == [job |-> job, key |-> k]
HasKey(d, k) == \E i \in 1..Len(d) : d[i].key = k
Get(d, k) == d[CHOOSE i \in 1..Len(d) : d[i].key = k].job
Put(d, k, job) ==
    IF HasKey(d, k)
    THEN [i \in 1..Len(d) |-> IF d[i].key = k THEN DictEntry(k, job) ELSE d[i]]
    ELSE Append(d, DictEntry(k, job))
Del(d, k) == SelectSeq(d, LAMBDA e : e.key # k)

\* A profile file: whether it exists, and the profile whose data it holds.
NoFile(p) == [exists |-> FALSE, data_of |-> p]
FileOf(p) == [exists |-> TRUE, data_of |-> p]

\* No call has been made.
NoRegistryCall == [raised |-> "", op |-> ""]
CallReturned(r, op) == [r EXCEPT !.call = [raised |-> "", op |-> op]]
CallRaised(r, op, e) == [r EXCEPT !.call = [raised |-> e, op |-> op]]

\* job_manager.py 251-271: save_current_profile() writes the data in memory
\* to the file of current_profile_name.
ProfileSaved(r) ==
    IF Strip(r.current_profile_name) = "" THEN r
    ELSE [r EXCEPT !.files[r.current_profile_name] =
                       [exists |-> TRUE, data_of |-> r.loaded_from]]

\* job_manager.py 700-716
BindingsCleanedUp(r) ==
    [r EXCEPT !._bound_hotkeys = [k \in CleanKeys |-> NotBound],
              !._bound_stopkeys = [k \in CleanKeys |-> NotBound]]

IsBound(r, k) == r._bound_hotkeys[k] # NotBound \/ r._bound_stopkeys[k] # NotBound

\* _bind_job_keys that looks for a key only in the dict it is about to
\* write: the hotkeys for a hotkey, the stop keys for a stop key.
BindJobKeys_OwnDictOnly(r, job) ==
    IF r._is_globally_recording_keys \/ ~job.enabled THEN r
    ELSE LET clean_hotkey == CleanKey(job.hotkey)
             clean_stopkey == CleanKey(job.stop_key)
             r1 == IF clean_hotkey # "" /\ r._bound_hotkeys[clean_hotkey] = NotBound
                   THEN [r EXCEPT !._bound_hotkeys[clean_hotkey] = job.name]
                   ELSE r
         IN IF clean_stopkey # "" /\ clean_stopkey # clean_hotkey
                /\ r1._bound_stopkeys[clean_stopkey] = NotBound
            THEN [r1 EXCEPT !._bound_stopkeys[clean_stopkey] = job.name]
            ELSE r1

\* job_manager.py 625-658: _bind_job_keys(job); keyboard.add_hotkey accepts
\* the keys of the model.
BindJobKeys(r, job) ==
    IF r._is_globally_recording_keys \/ ~job.enabled THEN r
    ELSE LET clean_hotkey == CleanKey(job.hotkey)
             clean_stopkey == CleanKey(job.stop_key)
             r1 == IF clean_hotkey # "" /\ ~IsBound(r, clean_hotkey)
                   THEN [r EXCEPT !._bound_hotkeys[clean_hotkey] = job.name]
                   ELSE r
         IN IF clean_stopkey # "" /\ clean_stopkey # clean_hotkey
                /\ ~IsBound(r1, clean_stopkey)
            THEN [r1 EXCEPT !._bound_stopkeys[clean_stopkey] = job.name]
            ELSE r1

\* job_manager.py 660-681: _unbind_job_keys(job)
UnbindJobKeys(r, job) ==
    LET clean_hotkey == CleanKey(job.hotkey)
        clean_stopkey == CleanKey(job.stop_key)
        r1 == IF clean_hotkey # "" /\ r._bound_hotkeys[clean_hotkey] = job.name
              THEN [r EXCEPT !._bound_hotkeys[clean_hotkey] = NotBound]
              ELSE r
    IN IF clean_stopkey # "" /\ clean_stopkey # clean_hotkey
           /\ r1._bound_stopkeys[clean_stopkey] = job.name
       THEN [r1 EXCEPT !._bound_stopkeys[clean_stopkey] = NotBound]
       ELSE r1

\* job_manager.py 688-690: the loop over self.jobs.values(), from entry i on.
RECURSIVE BindFrom(_, _)
BindFrom(r, i) ==
    IF i > Len(r.jobs) THEN r
    ELSE BindFrom(IF r.jobs[i].job.enabled THEN BindJobKeys(r, r.jobs[i].job) ELSE r,
                  i + 1)

\* job_manager.py 683-697: _bind_all_keys()
BindAllKeys(r) == BindFrom(BindingsCleanedUp(r), 1)

\* job_manager.py 360-361, 378-379, 397: the keys of a job are unbound when
\* no key recorder holds the hook.
UnboundUnlessRecording(r, job) ==
    IF r._is_globally_recording_keys THEN r ELSE UnbindJobKeys(r, job)

\* job_manager.py 324, 336, 366, 399
BoundIfEnabled(r, job) ==
    IF job.enabled /\ ~r._is_globally_recording_keys THEN BindJobKeys(r, job) ELSE r

\* job_manager.py 567-581 as seen by one thread: stop_job(name, wait=True).
JobStopped(r, name) ==
    IF HasKey(r.jobs, name)
    THEN [r EXCEPT !.running_executors = @ \ {name}]
    ELSE r

\* job_manager.py 550-565: start_job(name)
JobStarted(r, name) ==
    IF ~HasKey(r.jobs, name) THEN CallRaised(r, "start_job", "ValueError")
    ELSE IF ~Get(r.jobs, name).enabled THEN CallRaised(r, "start_job", "ValueError")
    ELSE CallReturned([r EXCEPT !.running_executors = @ \cup {name}], "start_job")

\* job_manager.py 315-326: create_job(name)
CreateJob(r, name) ==
    IF Strip(name) = "" THEN CallRaised(r, "create_job", "ValueError")
    ELSE IF HasKey(r.jobs, Strip(name)) THEN CallRaised(r, "create_job", "ValueError")
    ELSE LET new_job == NewJob(Strip(name), "", "", TRUE)
             stored == [r EXCEPT !.jobs = Put(@, Strip(name), new_job)]
         IN CallReturned(BoundIfEnabled(ProfileSaved(stored), new_job), "create_job")

\* job_manager.py 328-337: add_job(job)
AddJob(r, job) ==
    LET name == Strip(job.name)
    IN IF name = "" THEN CallRaised(r, "add_job", "ValueError")
       ELSE IF HasKey(r.jobs, name) THEN CallRaised(r, "add_job", "ValueError")
       ELSE CallReturned(BoundIfEnabled(ProfileSaved([r EXCEPT !.jobs = Put(@, name, job)]),
                                    job),
                     "add_job")

\* update_job that stores the updated job under the original name.
UpdateJob_UnderOriginalName(r, original_name_arg, updated_job) ==
    LET original_name == Strip(original_name_arg)
        new_name == Strip(updated_job.name)
    IN IF original_name = "" \/ ~HasKey(r.jobs, original_name) \/ new_name = ""
          \/ (new_name # original_name /\ HasKey(r.jobs, new_name))
       THEN CallRaised(r, "update_job", "ValueError")
       ELSE CallReturned(ProfileSaved(BoundIfEnabled(
                [UnboundUnlessRecording(r, Get(r.jobs, original_name))
                   EXCEPT !.jobs = Put(@, original_name, updated_job)],
                updated_job)), "update_job")

\* job_manager.py 342-370: update_job(original_name, updated_job)
UpdateJob(r, original_name_arg, updated_job) ==
    LET original_name == Strip(original_name_arg)
        new_name == Strip(updated_job.name)
    IN IF original_name = "" THEN CallRaised(r, "update_job", "ValueError")
       ELSE IF ~HasKey(r.jobs, original_name) THEN CallRaised(r, "update_job", "ValueError")
       ELSE IF new_name = "" THEN CallRaised(r, "update_job", "ValueError")
       ELSE IF new_name # original_name /\ HasKey(r.jobs, new_name)
            THEN CallRaised(r, "update_job", "ValueError")
       ELSE LET is_running == original_name \in r.running_executors
                stopped == IF is_running THEN JobStopped(r, original_name) ELSE r
                unbound == UnboundUnlessRecording(stopped, Get(r.jobs, original_name))
                stored == [unbound EXCEPT !.jobs =
                             Put(IF original_name # new_name THEN Del(@, original_name) ELSE @,
                                 new_name, updated_job)]
                saved == ProfileSaved(BoundIfEnabled(stored, updated_job))
            IN IF is_running /\ updated_job.enabled
               THEN [JobStarted(saved, new_name) EXCEPT !.call.op = "update_job"]
               ELSE CallReturned(saved, "update_job")

\* job_manager.py 373-383: delete_job(name)
DeleteJob(r, name) ==
    IF ~HasKey(r.jobs, name) THEN CallRaised(r, "delete_job", "ValueError")
    ELSE LET stopped == IF name \in r.running_executors THEN JobStopped(r, name) ELSE r
             unbound == UnboundUnlessRecording(stopped, Get(r.jobs, name))
         IN CallReturned(ProfileSaved([unbound EXCEPT !.jobs = Del(@, name)]), "delete_job")

\* job_manager.py 386-402: enable_job(name, enable_status)
EnableJob(r, name, new_state) ==
    IF ~HasKey(r.jobs, name) THEN CallRaised(r, "enable_job", "ValueError")
    ELSE LET job == Get(r.jobs, name)
         IN IF job.enabled = new_state THEN CallReturned(r, "enable_job")
            ELSE LET stopped == IF name \in r.running_executors /\ ~new_state
                                THEN JobStopped(r, name) ELSE r
                     changed == [job EXCEPT !.enabled = new_state]
                     stored == [UnboundUnlessRecording(stopped, job)
                                  EXCEPT !.jobs = Put(@, name, changed)]
                 IN CallReturned(ProfileSaved(BoundIfEnabled(stored, changed)), "enable_job")

\* handle_global_key_hook_state_change that sets the flag and leaves the
\* bindings in place when the hook is taken.
HandleGlobalKeyHookStateChange_KeepsBindings(r, is_hook_being_taken_by_recorder) ==
    IF is_hook_being_taken_by_recorder
    THEN CallReturned([r EXCEPT !._is_globally_recording_keys = TRUE], "hook_taken")
    ELSE IF r._is_globally_recording_keys
         THEN CallReturned(BindAllKeys([r EXCEPT !._is_globally_recording_keys = FALSE]),
                           "hook_released")
         ELSE CallReturned(r, "hook_released")

\* job_manager.py 726-742: handle_global_key_hook_state_change(taken)
HandleGlobalKeyHookStateChange(r, is_hook_being_taken_by_recorder) ==
    IF is_hook_being_taken_by_recorder
    THEN IF ~r._is_globally_recording_keys
         THEN CallReturned([BindingsCleanedUp(r) EXCEPT !._is_globally_recording_keys = TRUE],
                       "hook_taken")
         ELSE CallReturned(r, "hook_taken")
    ELSE IF r._is_globally_recording_keys
         THEN CallReturned(BindAllKeys([r EXCEPT !._is_globally_recording_keys = FALSE]),
                       "hook_released")
         ELSE CallReturned(r, "hook_released")

\* job_manager.py 221-226: the jobs made of the data of a profile file; each
\* one is named by its key.
JobsOfFile(data) ==
    [i \in 1..Len(data) |-> DictEntry(data[i].key, [data[i].job EXCEPT !.name = data[i].key])]

\* job_manager.py 179-249 as seen by one thread: load_profile(profile_name,
\* force_reload). read_ok: config_loader.load_profile(profile_name) returned
\* data, the jobs of which are data; otherwise it raised, and the file of the
\* default profile is read, which holds default_data.
RegistryLoadProfile(r, profile_name_arg, force_reload, read_ok, data, default_data) ==
    LET profile_name == Strip(profile_name_arg)
    IN IF profile_name = "" THEN CallReturned(r, "load_profile_false")
       ELSE IF ~force_reload /\ profile_name = r.current_profile_name /\ r.jobs # <<>>
            THEN CallReturned(r, "load_profile")
       ELSE LET stopped == BindingsCleanedUp([r EXCEPT !.running_executors = {}])
                read == IF read_ok
                        THEN [stopped EXCEPT !.loaded_from = profile_name,
                                             !.jobs = JobsOfFile(data)]
                        ELSE [stopped EXCEPT !.current_profile_name = DEFAULT_PROFILE_NAME,
                                             !.files[DEFAULT_PROFILE_NAME].exists = TRUE,
                                             !.loaded_from = DEFAULT_PROFILE_NAME,
                                             !.jobs = JobsOfFile(default_data)]
                named == [read EXCEPT !.current_profile_name = profile_name]
            IN CallReturned(IF ~named._is_globally_recording_keys
                        THEN BindAllKeys(named) ELSE named,
                        "load_profile")

\* job_manager.py 273-290: create_profile(profile_name, switch_to_it)
CreateProfile(r, profile_name_arg, switch_to_it, read_ok, default_data) ==
    LET profile_name == Strip(profile_name_arg)
    IN IF profile_name = "" THEN CallReturned(r, "create_profile_false")
       ELSE IF r.files[profile_name].exists THEN CallReturned(r, "create_profile_false")
       ELSE LET created == [r EXCEPT !.files[profile_name] = FileOf(profile_name)]
            IN IF switch_to_it
               THEN [RegistryLoadProfile(created, profile_name, TRUE, read_ok, <<>>,
                                         default_data)
                       EXCEPT !.call.op = "create_profile"]
               ELSE CallReturned(created, "create_profile")

\* job_manager.py 292-313: delete_profile(profile_name); deleted: what
\* config_loader.delete_profile returned.
DeleteProfile(r, profile_name_arg, deleted) ==
    LET profile_name == Strip(profile_name_arg)
    IN IF profile_name = "" \/ profile_name = DEFAULT_PROFILE_NAME
          \/ profile_name = r.current_profile_name \/ ~deleted
       THEN CallReturned(r, "delete_profile_false")
       ELSE CallReturned([r EXCEPT !.files[profile_name].exists = FALSE], "delete_profile")

\* job_manager.py 109-138: JobManager.__init__ when the default profile has
\* no jobs.
NoRegistry ==
    [jobs |-> <<>>, running_executors |-> {},
     current_profile_name |-> DEFAULT_PROFILE_NAME,
     call |-> NoRegistryCall,
     files |-> [p \in ProfileNames |->
                  IF p = DEFAULT_PROFILE_NAME THEN FileOf(p) ELSE NoFile(p)],
     loaded_from |-> DEFAULT_PROFILE_NAME,
     _bound_hotkeys |-> [k \in CleanKeys |-> NotBound],
     _bound_stopkeys |-> [k \in CleanKeys |-> NotBound],
     _is_globally_recording_keys |-> FALSE]

\* The state after JobManager.__init__ (job_manager.py 109-138): the default
\* profile is loaded, nothing runs, and start_observer() has started the
\* first observer thread.
ManagerConstructed(js, ts, cs) ==
    /\ jobs = js
    /\ triggers = ts
    /\ shared_conditions = LoadSharedConditions(EmptyRegistry, cs, <<"u1", "u2">>)
    /\ unlocked_write = FALSE
    /\ running_executors = [j \in JobNames |-> NoExecutor]
    /\ current_profile_name = DEFAULT_PROFILE_NAME
    /\ lock = NoThread
    /\ executors = [e \in Executors |-> NoExecutorObject]
    /\ observer = [running |-> TRUE, is_globally_enabled |-> TRUE,
                   stop_event |-> FALSE, _observer_thread |-> 1, _triggers |-> ts]
    /\ calls = <<>>
    /\ observer_threads = [t \in ObserverThreads |-> IF t = 1 THEN "alive" ELSE "none"]

\* The manager of the job whose executor is studied on its own: one enabled
\* job, no triggers.
ManagerIdle ==
    ManagerConstructed([j \in JobNames |-> [present |-> TRUE, enabled |-> TRUE, running |-> FALSE]],
                       [n \in TriggerNames |-> NoTrigger],
                       [is_list |-> TRUE, items |-> <<>>])

(***************************************************************************)
(* Init: the state after JobExecutor.__init__ for some job.                *)
(***************************************************************************)
ExecInit ==
    /\ \E c \in JobConfigs :
         /\ actions = c.actions
         /\ run_condition = c.run_condition
         /\ delay_between_runs = c.delay
    /\ job_running = TRUE
    /\ is_executing = FALSE
    /\ stop_event = FALSE
    /\ execution_thread = FALSE
    /\ current_run_count = 0
    /\ pc = "idle"
    /\ current_action_index = 0
    /\ execution_history = <<>>
    /\ should_continue = "unset"
    /\ stack = <<>>
    /\ ret = NoRet
    /\ prev_visit = NoVisit
    /\ raised = FALSE

\* No call of ConditionManager has been made.
NoCmCall ==
    [raised |-> FALSE, op |-> "", result |-> FALSE, id |-> "", obj |-> NoCondition,
     data |-> NotADict, list |-> NotAList]

\* No batch of TriggerActions is being executed.
NoDispatch == [next |-> 1, batch |-> <<>>, made |-> <<>>, ended |-> "never_started"]

\* trigger.py 98-120: a Trigger as constructed, polled by no loop. Times are
\* in tenths of a second.
NoPoll ==
    [now |-> 0, phase |-> "never_started", check_interval_seconds |-> 1,
     has_conditions |-> FALSE, has_actions |-> FALSE,
     last_checked_time |-> 0, last_triggered_time |-> 0,
     evaluations |-> 0, evaluated_at |-> 0, evaluated_before_at |-> 0]

CmIdle == cm_call = NoCmCall
DispatchIdle == dispatch = NoDispatch
PollIdle == poll = NoPoll

\* python_csharp_bridge.py 111-117: _send_request has been called and has
\* not connected yet; the server will answer with a line of some kind.
NoRequest ==
    [line |-> "success", phase |-> "called", buffered |-> FALSE, reads |-> 0,
     written |-> 0, outcome |-> "", cause |-> ""]

\* The shared conditions that can be flagged is_monitored_by_ai_brain.
AiIds == {"c1", "c2"}

\* observer.py 56-66 and job_manager.py 109-138: the Observer as constructed
\* and started by JobManager.__init__, with no shared condition, Observer.lock
\* free, and both threads outside every call.
NoAi ==
    [lock |-> "free", ai_brain_mode_enabled |-> FALSE, running |-> TRUE,
     _monitored_conditions_map |-> [i \in AiIds |-> "absent"],
     shared_conditions |-> [i \in AiIds |-> "absent"],
     _triggers |-> 0, _ai_triggers |-> 0,
     pc |-> [t \in {"ui", "observer"} |-> "idle"],
     then |-> [t \in {"ui", "observer"} |-> "idle"],
     last |-> "constructed"]

\* No Trigger has been evaluated.
NoEvaluation ==
    [evaluated |-> FALSE, trigger |-> <<>>,
     map |-> [i \in AiIds |-> "absent"],
     check_conditions |-> FALSE, checks_called |-> 0,
     ai_check |-> FALSE, ai_checks_called |-> 0]

AiIdle == ai = NoAi /\ evaluation = NoEvaluation

\* The other parts are idle: no call of JobManager on its own, no request.
RegistryIdle == registry = NoRegistry /\ bridge = NoRequest /\ AiIdle

AuxIdle == CmIdle /\ DispatchIdle /\ PollIdle /\ RegistryIdle

Init == ExecInit /\ ManagerIdle /\ AuxIdle

threadLocals == <<current_action_index, execution_history, should_continue,
                  stack, ret, prev_visit, raised>>
jobConfig == <<actions, run_condition, delay_between_runs>>

(***************************************************************************)
(* JobExecutor.start / JobExecutor.stop                                    *)
(***************************************************************************)
\* job_executor.py 103-126. JobManager starts each executor once.
ExecutorStart ==
    /\ pc = "idle"
    /\ ~is_executing
    /\ is_executing' = TRUE
    /\ stop_event' = FALSE
    /\ current_run_count' = 0
    /\ execution_thread' = TRUE
    /\ pc' = "loop"
    /\ UNCHANGED <<auxVars, mgrVars, jobConfig, job_running, threadLocals>>

ThreadAlive == pc \notin {"idle", "done"}

\* job_executor.py 128-148
ExecutorStop ==
    /\ is_executing \/ (execution_thread /\ ThreadAlive)
    /\ is_executing' = FALSE
    /\ stop_event' = TRUE
    /\ execution_thread' = FALSE
    /\ UNCHANGED <<auxVars, mgrVars, jobConfig, job_running, current_run_count, pc, threadLocals>>

(***************************************************************************)
(* _execute_loop                                                           *)
(***************************************************************************)
\* What consulting the run condition can give (job_executor.py 288-299).
RunConditionOutcomes ==
    CASE run_condition = "None" -> {"none"}
      [] run_condition = "invalid" -> {"wrongtype"}
      [] OTHER -> {"true", "false", "raise"}

\* job_executor.py 284-309: the head of the outer loop, up to the start of a pass.
LoopHead ==
    /\ pc = "loop"
    /\ IF ~(is_executing /\ ~stop_event)
       THEN /\ pc' = "finally"
            /\ UNCHANGED <<is_executing, stop_event, threadLocals>>
       ELSE \E o \in RunConditionOutcomes :
              /\ should_continue' = o
              /\ IF ShouldContinue(o)
                 THEN /\ current_run_count < MaxRuns
                      /\ current_action_index' = 0
                      /\ execution_history' = <<>>
                      /\ prev_visit' = NoVisit
                      /\ pc' = "inner"
                      /\ UNCHANGED <<is_executing, stop_event>>
                 ELSE /\ is_executing' = FALSE
                      /\ stop_event' = TRUE
                      /\ pc' = "finally"
                      /\ UNCHANGED <<current_action_index, execution_history, prev_visit>>
              /\ UNCHANGED <<stack, ret, raised>>
    /\ UNCHANGED <<auxVars, mgrVars, jobConfig, job_running, execution_thread, current_run_count>>

\* job_executor.py 315-341: the head of the inner loop, up to the call.
InnerHead ==
    /\ pc = "inner"
    /\ IF ~(0 <= current_action_index /\ current_action_index < Len(actions))
       THEN /\ pc' = "after_pass"
            /\ UNCHANGED <<is_executing, stop_event, execution_history, stack>>
       ELSE IF StopRequested
       THEN /\ is_executing' = FALSE
            /\ pc' = "after_pass"
            /\ UNCHANGED <<stop_event, execution_history, stack>>
       ELSE LET sig == Signature(current_action_index)
                h == AppendHistory(execution_history, sig)
            IN /\ execution_history' = h
               /\ IF LoopDetected(h, sig)
                  THEN /\ is_executing' = FALSE
                       /\ stop_event' = TRUE
                       /\ pc' = "after_pass"
                       /\ UNCHANGED stack
                  ELSE /\ stack' = << NewFrame(actions[current_action_index + 1], 0) >>
                       /\ pc' = "entry"
                       /\ UNCHANGED <<is_executing, stop_event>>
    /\ UNCHANGED <<auxVars, mgrVars, jobConfig, job_running, execution_thread, current_run_count,
                   current_action_index, should_continue, ret, prev_visit, raised>>

\* job_executor.py 350-365
AfterPass ==
    /\ pc = "after_pass"
    /\ IF ~is_executing
       THEN /\ pc' = "finally"
            /\ UNCHANGED current_run_count
       ELSE /\ current_run_count' = current_run_count + 1
            /\ pc' = IF ~stop_event /\ delay_between_runs > 0 THEN "delay" ELSE "loop"
    /\ UNCHANGED <<auxVars, mgrVars, jobConfig, job_running, is_executing, stop_event, execution_thread,
                   threadLocals>>

\* job_executor.py 363-365: _stop_event.wait(timeout) returns.
DelayWait ==
    /\ pc = "delay"
    /\ is_executing' = IF stop_event THEN FALSE ELSE is_executing
    /\ pc' = "loop"
    /\ UNCHANGED <<auxVars, mgrVars, jobConfig, job_running, stop_event, execution_thread,
                   current_run_count, threadLocals>>

\* job_executor.py 370-375
Finally ==
    /\ pc = "finally"
    /\ is_executing' = FALSE
    /\ job_running' = FALSE
    /\ pc' = "done"
    /\ UNCHANGED <<auxVars, mgrVars, jobConfig, stop_event, execution_thread, current_run_count,
                   threadLocals>>

(***************************************************************************)
(* _execute_action_with_fallback                                           *)
(***************************************************************************)
\* Variant: the depth check is missing.
Entry_NoDepthCheck ==
    /\ pc = "entry"
    /\ pc' = "while"
    /\ UNCHANGED <<auxVars, mgrVars, jobConfig, job_running, is_executing, stop_event, execution_thread,
                   current_run_count, current_action_index, execution_history,
                   should_continue, stack, ret, prev_visit, raised>>

\* job_executor.py 155-166
Entry ==
    /\ pc = "entry"
    /\ IF Top.depth > MAX_FALLBACK_DEPTH
       THEN /\ ret' = [met |-> FALSE, next |-> current_action_index + 1, line |-> 157]
            /\ pc' = "ret"
       ELSE /\ pc' = "while"
            /\ UNCHANGED ret
    /\ UNCHANGED <<auxVars, mgrVars, jobConfig, job_running, is_executing, stop_event, execution_thread,
                   current_run_count, current_action_index, execution_history,
                   should_continue, stack, prev_visit, raised>>

\* job_executor.py 168-176: the head of the retry loop, up to calling execute().
WhileHead ==
    /\ pc = "while"
    /\ IF Top.retries <= 0
       THEN /\ ret' = [met |-> FALSE,
                       next |-> NextIndexIfNotMet(Top.act, current_action_index),
                       line |-> 276]
            /\ pc' = "ret"
            /\ UNCHANGED <<is_executing, stack>>
       ELSE IF StopRequested
       THEN /\ is_executing' = FALSE
            /\ ret' = [met |-> Top.met, next |-> current_action_index + 1, line |-> 172]
            /\ pc' = "ret"
            /\ UNCHANGED stack
       ELSE /\ stack' = SetTop([Top EXCEPT !.calls = @ + 1])
            /\ pc' = "executing"
            /\ UNCHANGED <<is_executing, ret>>
    /\ UNCHANGED <<auxVars, mgrVars, jobConfig, job_running, stop_event, execution_thread,
                   current_run_count, current_action_index, execution_history,
                   should_continue, prev_visit, raised>>

\* job_executor.py 201-273: what follows a result of execute().
AfterResult(f, m) ==
    LET idx == current_action_index
        g == [f EXCEPT !.met = m]
    IN IF ~is_executing
       THEN [pc |-> "ret", frame |-> g,
             ret |-> [met |-> m, next |-> idx + 1, line |-> 199]]
       ELSE IF m
       THEN [pc |-> "ret", frame |-> g,
             ret |-> [met |-> TRUE, next |-> NextIndexIfMet(f.act, idx), line |-> 204]]
       ELSE IF f.act.abs /\ f.retries - 1 > 0
       THEN [pc |-> "retry_wait", frame |-> [g EXCEPT !.retries = @ - 1], ret |-> NoRet]
       ELSE LET h == IF f.act.abs THEN [g EXCEPT !.retries = @ - 1] ELSE g
            IN IF h.act.fb # <<>>
               THEN [pc |-> "fb_loop", frame |-> [h EXCEPT !.fbi = 1, !.any = FALSE],
                     ret |-> NoRet]
               ELSE [pc |-> "ret", frame |-> h,
                     ret |-> [met |-> FALSE, next |-> NextIndexIfNotMet(f.act, idx),
                              line |-> 271]]

\* Variant: the error is logged and the action counts as not met.
AfterRaise_Swallowed ==
    [is_executing |-> is_executing, stop_event |-> stop_event,
     ret |-> [met |-> FALSE, next |-> current_action_index + 1, line |-> 192]]

\* job_executor.py 189-196: action.execute() raised.
AfterRaise ==
    [is_executing |-> FALSE, stop_event |-> TRUE,
     ret |-> [met |-> FALSE, next |-> FatalIdx, line |-> 192]]

\* job_executor.py 176-223: action.execute() returns or raises.
ExecuteReturn ==
    /\ pc = "executing"
    /\ \E r \in {"met", "notmet", "raise"} :
         IF r = "raise"
         THEN /\ is_executing' = AfterRaise.is_executing
              /\ stop_event' = AfterRaise.stop_event
              /\ raised' = TRUE
              /\ ret' = AfterRaise.ret
              /\ pc' = "ret"
              /\ UNCHANGED stack
         ELSE LET a == AfterResult(Top, r = "met")
              IN /\ stack' = SetTop(a.frame)
                 /\ ret' = a.ret
                 /\ pc' = a.pc
                 /\ UNCHANGED <<is_executing, stop_event, raised>>
    /\ UNCHANGED <<auxVars, mgrVars, jobConfig, job_running, execution_thread, current_run_count,
                   current_action_index, execution_history, should_continue, prev_visit>>

\* job_executor.py 212-216: _stop_event.wait(retry interval) returns.
RetryWait ==
    /\ pc = "retry_wait"
    /\ IF stop_event
       THEN /\ is_executing' = FALSE
            /\ ret' = [met |-> FALSE, next |-> current_action_index + 1, line |-> 215]
            /\ pc' = "ret"
            /\ UNCHANGED stack
       ELSE /\ pc' = "while"
            /\ stack' = SetTop([Top EXCEPT !.waits = @ + 1])
            /\ UNCHANGED <<is_executing, ret>>
    /\ UNCHANGED <<auxVars, mgrVars, jobConfig, job_running, stop_event, execution_thread,
                   current_run_count, current_action_index, execution_history,
                   should_continue, prev_visit, raised>>

\* job_executor.py 230-244, 257-268: one iteration of the fallback loop.
FallbackLoop ==
    /\ pc = "fb_loop"
    /\ IF Top.fbi > Len(Top.act.fb) \/ StopRequested
       THEN /\ ret' = AfterFallback(Top, current_action_index)
            /\ pc' = "ret"
            /\ UNCHANGED stack
       ELSE LET d == Top.act.fb[Top.fbi]
            IN IF ~d.valid
               THEN /\ stack' = SetTop([Top EXCEPT !.fbi = @ + 1,
                                                   !.fbres = Append(@, "skipped")])
                    /\ UNCHANGED <<pc, ret>>
               ELSE /\ stack' = Append(stack, NewFrame(d, Top.depth + 1))
                    /\ pc' = "entry"
                    /\ UNCHANGED ret
    /\ UNCHANGED <<auxVars, mgrVars, jobConfig, job_running, is_executing, stop_event, execution_thread,
                   current_run_count, current_action_index, execution_history,
                   should_continue, prev_visit, raised>>

\* Variant: the loop does not break on the first successful fallback.
AfterFallbackCall_NoBreak(p, m, idx) ==
    LET q == [p EXCEPT !.fbres = Append(@, IF m THEN "met" ELSE "notmet")]
    IN [pc |-> "fb_loop",
        frame |-> [q EXCEPT !.any = (@ \/ m), !.fbi = @ + 1],
        ret |-> NoRet]

\* job_executor.py 246-251: a fallback call returned m to the loop of frame p.
AfterFallbackCall(p, m, idx) ==
    LET q == [p EXCEPT !.fbres = Append(@, IF m THEN "met" ELSE "notmet")]
    IN IF m
       THEN [pc |-> "ret", frame |-> [q EXCEPT !.any = TRUE],
             ret |-> AfterFallback([q EXCEPT !.any = TRUE], idx)]
       ELSE [pc |-> "fb_loop", frame |-> [q EXCEPT !.fbi = @ + 1], ret |-> NoRet]

\* job_executor.py 240-251 (a fallback call returns to its caller) and
\* 339-348 (the top-level call returns to _execute_loop).
Return ==
    /\ pc = "ret"
    /\ IF Len(stack) = 1
       THEN /\ stack' = <<>>
            /\ ret' = NoRet
            /\ prev_visit' = [idx |-> current_action_index, met |-> Top.met,
                              result |-> ret.met]
            /\ IF ret.next = FatalIdx
               THEN /\ is_executing' = FALSE
                    /\ stop_event' = TRUE
                    /\ pc' = "after_pass"
                    /\ UNCHANGED current_action_index
               ELSE /\ current_action_index' = ret.next
                    /\ pc' = "inner"
                    /\ UNCHANGED <<is_executing, stop_event>>
       ELSE LET a == AfterFallbackCall(stack[Len(stack) - 1], ret.met, current_action_index)
            IN /\ stack' = [Pop EXCEPT ![Len(stack) - 1] = a.frame]
               /\ ret' = a.ret
               /\ pc' = a.pc
               /\ UNCHANGED <<is_executing, stop_event, current_action_index, prev_visit>>
    /\ UNCHANGED <<auxVars, mgrVars, jobConfig, job_running, execution_thread, current_run_count,
                   execution_history, should_continue, raised>>

ThreadNext ==
    \/ LoopHead
    \/ InnerHead
    \/ Entry
    \/ WhileHead
    \/ ExecuteReturn
    \/ RetryWait
    \/ FallbackLoop
    \/ Return
    \/ AfterPass
    \/ DelayWait
    \/ Finally

Next ==
    \/ ExecutorStart
    \/ ExecutorStop
    \/ ThreadNext

Spec == Init /\ [][Next]_vars

\* The scheduler runs the execution thread, and every call it makes returns.
FairSpec == Spec /\ WF_vars(ThreadNext)

(***************************************************************************)
(* The steps of JobManager, of the Observer and of the threads.            *)
(***************************************************************************)
\* The next state is the manager m, with the executors that nothing refers
\* to dropped.
Becomes(m) ==
    LET c == Collected(m)
    IN /\ m.within_bounds
       /\ jobs' = c.jobs
       /\ running_executors' = c.running_executors
       /\ triggers' = c.triggers
       /\ current_profile_name' = c.current_profile_name
       /\ lock' = c.lock
       /\ executors' = c.executors
       /\ observer' = c.observer
       /\ calls' = c.calls
       /\ observer_threads' = c.observer_threads
       /\ shared_conditions' = c.shared_conditions
       /\ unlocked_write' = c.unlocked_write
       /\ UNCHANGED <<execVars, auxVars>>

\* gui/job_list.py 419, main.py 56, gui/main_window.py 325
UiRequests ==
    {[Frame("toggle_job", "lock") EXCEPT !.job = j] : j \in JobNames}
    \cup {Frame("stop_all_running_jobs", "lock")}
    \cup {[Frame("load_profile", "check") EXCEPT !.profile = p, !.force = TRUE] :
            p \in ProfileNames}

\* job_manager.py 653: the stop key of a job calls stop_job(name, wait=False).
KeyboardRequests ==
    {[Frame("stop_job", "lock") EXCEPT !.job = j] : j \in JobNames}

UiRequest ==
    /\ calls = <<>>
    /\ \E f \in UiRequests : Becomes(Called(Manager, f))

KeyboardRequest ==
    /\ calls = <<>>
    /\ \E f \in KeyboardRequests : Becomes(Called(Manager, f))

\* The Condition objects that the shared condition editor hands over, and
\* the data it sends for an update.
EditedConditions == {CreateCondition(SharedColorCondition, "u1").obj}
EditedConditionData == {[SharedColorCondition EXCEPT !.name = <<>>]}

\* After a change of the shared conditions: save_current_profile() if the
\* ConditionManager returned True.
SavingIf(m, r) ==
    IF r.result
    THEN Called(RegistryWritten([m EXCEPT !.shared_conditions = r.reg]),
                Frame("save_current_profile", "lock"))
    ELSE m

\* job_manager.py 461-465: add_shared_condition, up to the call of
\* save_current_profile.
AddSharedCondition ==
    /\ calls = <<>>
    /\ \E c \in EditedConditions :
         Becomes(SavingIf(Manager, AddOrUpdateSharedCondition(shared_conditions, c)))

\* job_manager.py 467-471: update_shared_condition, up to the call of
\* save_current_profile.
UpdateSharedCondition ==
    /\ calls = <<>>
    /\ \E d \in EditedConditionData :
         Becomes(SavingIf(Manager,
                          UpdateSharedConditionFromData(shared_conditions, d.id, d)))

\* The search that looks at the first action of each job only.
IsConditionIdInUse_FirstActionOnly(m, condition_id) ==
    /\ condition_id # ""
    /\ \E j \in JobNames :
         /\ m.jobs[j].present
         /\ actions # <<>>
         /\ actions[1].condition_id = condition_id

\* condition_manager.py 156-165 over the jobs of JobManager: the actions of
\* the jobs of these profiles are those of the job of the first part.
IsConditionIdInUse(m, condition_id) ==
    /\ condition_id # ""
    /\ \E j \in JobNames :
         /\ m.jobs[j].present
         /\ \E i \in 1..Len(actions) : actions[i].condition_id = condition_id

\* job_manager.py 473-485: delete_shared_condition, up to the call of
\* save_current_profile.
DeleteSharedConditionRequest ==
    /\ calls = <<>>
    /\ \E i \in {"c1"} :
         Becomes(IF IsConditionIdInUse(Manager, i) THEN Manager
                 ELSE SavingIf(Manager, DeleteSharedCondition(shared_conditions, i)))

\* job_manager.py 251-271: save_current_profile writes the file under the
\* lock.
SaveCurrentProfile ==
    /\ At("save_current_profile", "lock")
    /\ CanLock(UiThread)
    /\ Becomes(Returned(Manager))

\* job_manager.py 587-600
ToggleJobLocked ==
    LET name == TopCall(Manager).job
        is_running_check == running_executors[name] # NoExecutor
    IN /\ At("toggle_job", "lock")
       /\ CanLock(UiThread)
       /\ Becomes(IF ~jobs[name].present \/ (~jobs[name].enabled /\ ~is_running_check)
                  THEN Returned(Manager)
                  ELSE IF is_running_check
                  THEN Goto(Manager, [Frame("stop_job", "lock") EXCEPT !.job = name])
                  ELSE Goto(Manager, [Frame("start_job", "lock") EXCEPT !.job = name]))

\* job_manager.py 551-561
StartJobLocked ==
    LET r == StartJobRegister(Manager, TopCall(Manager).job)
    IN /\ At("start_job", "lock")
       /\ CanLock(UiThread)
       /\ Becomes(IF r.ex = NoExecutor THEN Returned(r.m)
                  ELSE Goto(r.m, [TopCall(r.m) EXCEPT !.pc = "start", !.ex = r.ex]))

\* job_manager.py 562
StartJobExecutorStart ==
    /\ At("start_job", "start")
    /\ Becomes(Returned(ExecutorStarted(Manager, TopCall(Manager).ex)))

\* job_manager.py 574-582
StopJobLocked ==
    LET r == StopJobPop(Manager, TopCall(Manager).job)
    IN /\ At("stop_job", "lock")
       /\ CanLock(UiThread)
       /\ Becomes(IF r.ex = NoExecutor THEN Returned(r.m)
                  ELSE Goto(r.m, [TopCall(r.m) EXCEPT !.pc = "stop", !.ex = r.ex]))

\* job_manager.py 583-585
StopJobExecutorStop ==
    /\ At("stop_job", "stop")
    /\ Becomes(Returned(ExecutorStopped(Manager, TopCall(Manager).ex)))

\* job_manager.py 603-606
StopAllLocked ==
    LET jobs_to_stop == JobsToStop(Manager)
    IN /\ At("stop_all_running_jobs", "lock")
       /\ CanLock(UiThread)
       /\ Becomes(IF jobs_to_stop = <<>> THEN Returned(Manager)
                  ELSE Goto(Manager, [TopCall(Manager) EXCEPT !.pc = "each",
                                                              !.todo = jobs_to_stop]))

\* job_manager.py 607-609
StopAllEach ==
    LET f == TopCall(Manager)
    IN /\ At("stop_all_running_jobs", "each")
       /\ Becomes(IF f.todo = <<>> THEN Returned(Manager)
                  ELSE Called(Goto(Manager, [f EXCEPT !.todo = Tail(f.todo)]),
                              [Frame("stop_job", "lock") EXCEPT !.job = Head(f.todo)]))

\* job_manager.py 185-191
LoadProfileCheck ==
    LET f == TopCall(Manager)
    IN /\ At("load_profile", "check")
       /\ \E other_data \in BOOLEAN :
            Becomes(IF AlreadyLoadedAndNotForced(Manager, f.profile, f.force, other_data)
                    THEN Returned(Manager)
                    ELSE Goto(Manager, [f EXCEPT !.pc = "acquire"]))

\* job_manager.py 194-197: the lock is taken, the running jobs and the
\* observer are stopped.
LoadProfileStop ==
    /\ At("load_profile", "acquire")
    /\ CanLock(UiThread)
    /\ Becomes(Goto(ObserverStopped(StopAllRunningJobs(Locked(Manager))),
                    [TopCall(Manager) EXCEPT !.pc = "load"]))

\* job_manager.py 199-249: the profile is loaded, the observer is started
\* and the lock released.
LoadProfileLoad ==
    /\ At("load_profile", "load")
    /\ \E js \in LoadableJobs, ts \in LoadableTriggers, cs \in LoadableConditions :
         Becomes(Returned(Released(
             ProfileLoaded(Manager, TopCall(Manager).profile, js, ts, cs))))

\* job_manager.py 405-414
AddTrigger ==
    /\ calls = <<>>
    /\ CanLock(UiThread)
    /\ \E n \in TriggerNames, a \in TriggerActionLists :
         /\ ~triggers[n].present
         /\ Becomes(Released(TriggersLoaded(RegistryWritten(
                [Locked(Manager) EXCEPT !.triggers[n] = [present |-> TRUE, actions |-> a]]))))

\* job_manager.py 422-437
UpdateTrigger ==
    /\ calls = <<>>
    /\ CanLock(UiThread)
    /\ \E n \in TriggerNames, a \in TriggerActionLists :
         /\ triggers[n].present
         /\ Becomes(Released(TriggersLoaded(RegistryWritten(
                [Locked(Manager) EXCEPT !.triggers[n] = [present |-> TRUE, actions |-> a]]))))

\* job_manager.py 440-451
DeleteTrigger ==
    /\ calls = <<>>
    /\ CanLock(UiThread)
    /\ \E n \in TriggerNames :
         /\ triggers[n].present
         /\ Becomes(Released(TriggersLoaded(RegistryWritten(
                [Locked(Manager) EXCEPT !.triggers[n] = NoTrigger]))))

\* What the actions of a batch can read from the profile files: only
\* SWITCH_PROFILE reads them.
FilesRead(batch) ==
    IF \E i \in 1..Len(batch) : batch[i].action_type = "switch_profile"
    THEN [other_data : BOOLEAN, js : LoadableJobs, ts : LoadableTriggers,
          cs : LoadableConditions]
    ELSE {[other_data |-> FALSE,
           js |-> [j \in JobNames |-> NoJob],
           ts |-> [n \in TriggerNames |-> NoTrigger],
           cs |-> [is_list |-> TRUE, items |-> <<>>]]}

\* observer.py 163-201: a pass of _observer_loop on the thread t in which a
\* trigger fires and its actions are executed; the calls it makes into
\* JobManager take the lock.
ObserverPass(t) ==
    /\ observer_threads[t] = "alive"
    /\ ~observer.stop_event
    /\ observer.is_globally_enabled
    /\ lock = NoThread
    /\ \E n \in TriggerNames :
         /\ observer._triggers[n].present
         /\ \E f \in FilesRead(observer._triggers[n].actions) :
              Becomes(ExecuteTriggeredActions(OnThread(t), observer._triggers[n].actions,
                                              f.other_data, f.js, f.ts, f.cs))

\* observer.py 163, 166, 232: the loop on the thread t sees the stop event
\* and the thread ends.
ObserverExit(t) ==
    /\ observer_threads[t] = "alive"
    /\ observer.stop_event
    /\ Becomes([Manager EXCEPT !.observer_threads[t] = "none"])

\* job_executor.py 281-375 seen from JobManager: the execution thread of the
\* executor e ends, and its finally block clears the flags of the executor
\* and of the Job object it holds.
ExecutionThreadEnds(e) ==
    LET x == executors[e]
        ended == [Manager EXCEPT !.executors[e].thread = "dead",
                                 !.executors[e].is_executing = FALSE]
    IN /\ x.thread = "alive"
       /\ Becomes(IF x.stale THEN ended
                  ELSE [ended EXCEPT !.jobs[x.job].running = FALSE])

ManagerNext ==
    \/ UiRequest
    \/ KeyboardRequest
    \/ ToggleJobLocked
    \/ StartJobLocked
    \/ StartJobExecutorStart
    \/ StopJobLocked
    \/ StopJobExecutorStop
    \/ StopAllLocked
    \/ StopAllEach
    \/ LoadProfileCheck
    \/ LoadProfileStop
    \/ LoadProfileLoad
    \/ AddTrigger
    \/ UpdateTrigger
    \/ DeleteTrigger
    \/ AddSharedCondition
    \/ UpdateSharedCondition
    \/ DeleteSharedConditionRequest
    \/ SaveCurrentProfile
    \/ \E t \in ObserverThreads : ObserverPass(t)
    \/ \E t \in ObserverThreads : ObserverExit(t)
    \/ \E e \in Executors : ExecutionThreadEnds(e)

\* The state after JobManager.__init__, whatever the default profile holds.
\* The interpreter of the first part stays as constructed.
ManagerInit ==
    /\ ExecInit
    /\ actions = <<PlainAction>>
    /\ run_condition = "None"
    /\ delay_between_runs = 0
    /\ AuxIdle
    /\ \E js \in LoadableJobs, ts \in LoadableTriggers, cs \in LoadableConditions :
         ManagerConstructed(js, ts, cs)

ManagerSpec == ManagerInit /\ [][ManagerNext]_vars

(***************************************************************************)
(* ConditionManager on its own: any sequence of calls of its four          *)
(* operations that change the registry.                                    *)
(***************************************************************************)
managerFields == <<jobs, running_executors, triggers, current_profile_name, lock,
                   unlocked_write, executors, observer, calls, observer_threads>>

\* Condition data with a name and with fine params.
NamedData(ty, id) ==
    [type |-> ty, is_dict |-> TRUE, id |-> id, name |-> <<"n1">>, params |-> "ok"]

\* The items of the lists given to load_shared_conditions.
ListItems ==
    {NotADict,
     NamedData(NONE_TYPE, "c1"), NamedData("bogus", "c1"),
     NamedData("color_at_position", "c1"), NamedData("color_at_position", "c2"),
     NamedData("color_at_position", ""),
     [type |-> "color_at_position", is_dict |-> TRUE, id |-> "c2", name |-> <<"n1">>,
      params |-> "raises"]}

RECURSIVE ListsOf(_, _)
\* The sequences of at most n elements of S.
ListsOf(S, n) ==
    IF n = 0 THEN {<<>>}
    ELSE LET shorter == ListsOf(S, n - 1)
         IN shorter \cup {Append(l, x) : l \in shorter, x \in S}

ConditionLists ==
    {NotAList} \cup {[is_list |-> TRUE, items |-> l] : l \in ListsOf(ListItems, MaxListLen)}

\* The data given to update_shared_condition_from_data.
UpdateData ==
    {NotADict}
    \cup [type : {"", NONE_TYPE, "color_at_position", "bogus"},
          is_dict : {TRUE},
          id : {"c1"},
          name : {<<>>, <<"n1">>, NotAString},
          params : {"ok", "bad_region"}]

\* The ids uuid4 hands out during one call.
Uuids == [i \in 1..MaxListLen |-> IF i = 1 THEN "u1" ELSE "u2"]

\* The objects given to add_or_update_shared_condition: None, and the
\* Conditions that create_condition builds.
ConditionObjects ==
    {NoCondition}
    \cup {CreateCondition(d, "u1").obj : d \in {x \in ConditionData : ~CreateCondition(x, "u1").raised}}

CmCalled(reg, call) ==
    /\ shared_conditions' = reg
    /\ cm_call' = call
    /\ UNCHANGED <<execVars, managerFields, notCm>>

CmLoadSharedConditions ==
    \E l \in ConditionLists :
        CmCalled(LoadSharedConditions(shared_conditions, l, Uuids),
                 [NoCmCall EXCEPT !.op = "load_shared_conditions", !.list = l])

CmAddOrUpdateSharedCondition ==
    \E c \in ConditionObjects :
        LET r == AddOrUpdateSharedCondition(shared_conditions, c)
        IN CmCalled(r.reg, [NoCmCall EXCEPT !.op = "add_or_update_shared_condition",
                                            !.obj = c, !.result = r.result])

CmUpdateSharedConditionFromData ==
    \E i \in ConditionIds \cup {""}, d \in UpdateData :
        LET r == UpdateSharedConditionFromData(shared_conditions, i, d)
        IN CmCalled(r.reg, [NoCmCall EXCEPT !.op = "update_shared_condition_from_data",
                                            !.id = i, !.data = d, !.result = r.result])

CmDeleteSharedCondition ==
    \E i \in RegistryIds \cup {""} :
        LET r == DeleteSharedCondition(shared_conditions, i)
        IN CmCalled(r.reg, [NoCmCall EXCEPT !.op = "delete_shared_condition",
                                            !.id = i, !.result = r.result])

ConditionNext ==
    \/ CmLoadSharedConditions
    \/ CmAddOrUpdateSharedCondition
    \/ CmUpdateSharedConditionFromData
    \/ CmDeleteSharedCondition

\* The state after ConditionManager.__init__ (condition_manager.py 10-12).
ConditionInit ==
    /\ ExecInit
    /\ actions = <<PlainAction>>
    /\ run_condition = "None"
    /\ delay_between_runs = 0
    /\ ManagerIdle
    /\ AuxIdle

ConditionSpec == ConditionInit /\ [][ConditionNext]_vars

(***************************************************************************)
(* create_condition and check() on their own: a Condition is built from    *)
(* any data and then checked.                                              *)
(***************************************************************************)
\* condition.py 1349-1379: create_condition(data) is called.
CreateConditionCalled ==
    /\ cm_call.op = ""
    /\ \E u \in UuidIds :
         LET r == CreateCondition(cm_call.data, u)
         IN cm_call' = [cm_call EXCEPT !.op = "create_condition",
                                       !.raised = r.raised, !.obj = r.obj]
    /\ UNCHANGED <<execVars, managerFields, shared_conditions, notCm>>

\* condition.py 156-163, 212-214: check() of the Condition that
\* create_condition returned is called.
CheckCalled ==
    /\ cm_call.op = "create_condition"
    /\ ~cm_call.raised
    /\ \E b \in CheckResults(cm_call.obj) :
         cm_call' = [cm_call EXCEPT !.op = "check", !.result = b]
    /\ UNCHANGED <<execVars, managerFields, shared_conditions, notCm>>

CreateNext == CreateConditionCalled \/ CheckCalled

\* Some data is at hand; nothing has been built from it.
CreateInit ==
    /\ ExecInit
    /\ actions = <<PlainAction>>
    /\ run_condition = "None"
    /\ delay_between_runs = 0
    /\ ManagerIdle
    /\ RegistryIdle
    /\ \E d \in ConditionData : cm_call = [NoCmCall EXCEPT !.data = d]
    /\ DispatchIdle
    /\ PollIdle

CreateSpec == CreateInit /\ [][CreateNext]_vars

(***************************************************************************)
(* Observer._execute_triggered_actions on its own: one batch, action by    *)
(* action, with calls of JobManager that return or raise.                  *)
(***************************************************************************)
\* trigger.py 53-56: a target is a stripped string, "" if none was given.
DispatchTargets == {"", "j1", "all", "All"}

Batches ==
    ListsOf({TriggerAction(ty, tg) : ty \in VALID_ACTIONS, tg \in DispatchTargets},
            MaxBatch)

dispatchFrame == <<execVars, jobs, running_executors, triggers, current_profile_name,
                   lock, shared_conditions, unlocked_write, executors, calls,
                   observer_threads, notDispatch>>

\* The loop goes to the next action, or ends with the list.
Advanced(d) ==
    [d EXCEPT !.next = d.next + 1,
              !.ended = IF d.next = Len(d.batch) THEN "exhausted" ELSE "running"]

\* observer.py 283-287: an action without the target it needs is passed
\* over.
DispatchSkip ==
    /\ dispatch.ended = "running"
    /\ TargetMissing(dispatch.batch[dispatch.next])
    /\ dispatch' = Advanced(dispatch)
    /\ UNCHANGED <<dispatchFrame, observer>>

\* The loop after a call, without the break that follows load_profile.
AfterCall_NoBreak(d, c, did_raise, stop) ==
    IF stop
    THEN [d EXCEPT !.next = @ + 1, !.ended = "break_on_stop_event"]
    ELSE Advanced(d)

\* observer.py 296-299: the loop after the call c: the break that follows a
\* load_profile that returned, the two except clauses, and the look at the
\* stop event.
AfterCall(d, c, did_raise, stop) ==
    IF c.op = "load_profile" /\ ~did_raise
    THEN [d EXCEPT !.next = @ + 1, !.ended = "break_after_load_profile"]
    ELSE IF stop
    THEN [d EXCEPT !.next = @ + 1, !.ended = "break_on_stop_event"]
    ELSE Advanced(d)

\* observer.py 289-299: the call for the action is made; it returns or
\* raises, and the stop event is looked at. load_profile stops and starts
\* the observer, which sets and clears the stop event; during any call
\* another thread may call Observer.stop().
DispatchCall ==
    LET a == dispatch.batch[dispatch.next]
        c == CallFor(a)
    IN /\ dispatch.ended = "running"
       /\ ~TargetMissing(a)
       /\ \E did_raise \in IF c = NoCall THEN {FALSE} ELSE BOOLEAN,
             stop \in IF c.op = "load_profile" THEN BOOLEAN
                      ELSE {observer.stop_event, TRUE} :
            /\ observer' = [observer EXCEPT !.stop_event = stop]
            /\ dispatch' =
                 LET d == [dispatch EXCEPT
                             !.made = IF c = NoCall THEN @
                                      ELSE Append(@, [raised |-> did_raise,
                                                      target |-> c.target, op |-> c.op,
                                                      index |-> dispatch.next])]
                 IN AfterCall(d, c, did_raise, stop)
       /\ UNCHANGED dispatchFrame

\* observer.py 150-154: Observer.stop() on another thread, between two
\* actions.
StopEventSet ==
    /\ dispatch.ended = "running"
    /\ ~observer.stop_event
    /\ observer' = [observer EXCEPT !.stop_event = TRUE]
    /\ UNCHANGED <<dispatchFrame, dispatch>>

DispatchNext == DispatchSkip \/ DispatchCall \/ StopEventSet

\* observer.py 199-200: _execute_triggered_actions is entered with a batch
\* that is not empty.
DispatchInit ==
    /\ ExecInit
    /\ actions = <<PlainAction>>
    /\ run_condition = "None"
    /\ delay_between_runs = 0
    /\ ManagerIdle
    /\ RegistryIdle
    /\ CmIdle
    /\ PollIdle
    /\ \E b \in Batches \ {<<>>} :
         dispatch = [NoDispatch EXCEPT !.batch = b, !.ended = "running"]

DispatchSpec == DispatchInit /\ [][DispatchNext]_vars

(***************************************************************************)
(* Observer._observer_loop polling one enabled Trigger of the regular      *)
(* list. Times are in tenths of a second of time.monotonic().              *)
(***************************************************************************)
\* observer.py 160: min_sleep_time = 0.1
MIN_SLEEP_TIME == 1

\* The time that passes while a statement runs or beyond a timeout.
Delays == {0, 1}

\* trigger.py 123-124
ShouldCheck(t, current_time) ==
    current_time - t.last_checked_time >= t.check_interval_seconds

\* trigger.py 126-158: check_conditions at the time now; met is what the
\* conditions, if there are any, come to. last_checked_time is set only
\* after the test for an empty list of conditions.
ConditionsChecked(t, now, met) ==
    IF ~t.has_conditions THEN [t |-> t, result |-> t.has_actions]
    ELSE [t |-> [t EXCEPT !.last_checked_time = now], result |-> met]

\* trigger.py 160-168
Triggered(t, current_time) == [t EXCEPT !.last_triggered_time = current_time]

\* The evaluation of the Trigger at current_time is noted.
Evaluated(t, current_time) ==
    [t EXCEPT !.evaluations = IF @ < 2 THEN @ + 1 ELSE @,
              !.evaluated_before_at = t.evaluated_at,
              !.evaluated_at = current_time]

\* observer.py 163-197: a pass of the loop up to the sleep. The clock is
\* read, the Trigger is evaluated if should_check says so, and it fires if
\* its conditions are met.
LoopPass ==
    /\ poll.phase = "pass"
    /\ poll.now < MaxTime
    /\ LET current_time == poll.now
       IN IF ShouldCheck(poll, current_time)
          THEN \E d \in Delays, met \in BOOLEAN :
                  LET c == ConditionsChecked(Evaluated(poll, current_time),
                                             current_time + d, met)
                      fired == IF c.result THEN Triggered(c.t, current_time) ELSE c.t
                  IN poll' = [fired EXCEPT !.now = current_time + d, !.phase = "sleep"]
          ELSE poll' = [poll EXCEPT !.phase = "sleep"]
    /\ UNCHANGED <<execVars, mgrVars, notPoll>>

\* observer.py 203-232: the sleep of the pass, to the next check of the
\* Trigger but not shorter than min_sleep_time.
LoopSleep ==
    /\ poll.phase = "sleep"
    /\ LET trigger_next_check == poll.last_checked_time + poll.check_interval_seconds
           time_until_next_regular_check ==
               IF trigger_next_check > poll.now THEN trigger_next_check - poll.now ELSE 0
           sleep_duration ==
               IF time_until_next_regular_check > MIN_SLEEP_TIME
               THEN time_until_next_regular_check ELSE MIN_SLEEP_TIME
       IN \E d \in Delays :
            poll' = [poll EXCEPT !.now = @ + sleep_duration + d, !.phase = "pass"]
    /\ UNCHANGED <<execVars, mgrVars, notPoll>>

PollNext == LoopPass \/ LoopSleep

\* observer.py 158-163: the loop starts at some time of the clock with a
\* Trigger as constructed (trigger.py 98-120: check_interval_seconds is at
\* least 0.1, both times are 0.0).
PollInit ==
    /\ ExecInit
    /\ actions = <<PlainAction>>
    /\ run_condition = "None"
    /\ delay_between_runs = 0
    /\ ManagerIdle
    /\ RegistryIdle
    /\ CmIdle
    /\ DispatchIdle
    /\ \E t0 \in 0..MaxInterval, i \in 1..MaxInterval, c \in BOOLEAN, a \in BOOLEAN :
         poll = [NoPoll EXCEPT !.now = t0, !.phase = "pass",
                               !.check_interval_seconds = i,
                               !.has_conditions = c, !.has_actions = a]

PollSpec == PollInit /\ [][PollNext]_vars

(***************************************************************************)
(* JobManager called by one thread: jobs, keys and key bindings.           *)
(***************************************************************************)
registryFrame == <<execVars, mgrVars, notRegistry>>

JobObjects ==
    {NewJob(n, h, s, e) : n \in RegistryKeys, h \in HotKeys, s \in StopKeys, e \in BOOLEAN}

\* The jobs of the profile files that are read: a dict of job data by key;
\* the name in the data need not be the key.
JobFiles ==
    {<<>>,
     <<DictEntry("a", NewJob("b", "F1", "f2", TRUE))>>,
     <<DictEntry("b", NewJob("b", "F1", "f1", TRUE)),
       DictEntry("a", NewJob("a", "F1", "f2", FALSE))>>}

CreateJobCall(name) ==
    /\ registry' = CreateJob(registry, name)
    /\ UNCHANGED registryFrame

AddJobCall(job) ==
    /\ registry' = AddJob(registry, job)
    /\ UNCHANGED registryFrame

UpdateJobCall(original_name, updated_job) ==
    /\ registry' = UpdateJob(registry, original_name, updated_job)
    /\ UNCHANGED registryFrame

DeleteJobCall(name) ==
    /\ registry' = DeleteJob(registry, name)
    /\ UNCHANGED registryFrame

EnableJobCall(name, enable_status) ==
    /\ registry' = EnableJob(registry, name, enable_status)
    /\ UNCHANGED registryFrame

StartJobCall(name) ==
    /\ registry' = JobStarted(registry, name)
    /\ UNCHANGED registryFrame

HookStateChange(taken) ==
    /\ registry' = HandleGlobalKeyHookStateChange(registry, taken)
    /\ UNCHANGED registryFrame

\* load_profile of the current profile, whose file is read.
ReloadProfile(force_reload, data) ==
    /\ registry' = RegistryLoadProfile(registry, registry.current_profile_name,
                                       force_reload, TRUE, data, <<>>)
    /\ UNCHANGED registryFrame

KeysNext ==
    \/ \E name \in NameInputs : CreateJobCall(name)
    \/ \E job \in JobObjects : AddJobCall(job)
    \/ \E original_name \in NameInputs, job \in JobObjects :
         UpdateJobCall(original_name, job)
    \/ \E name \in RegistryKeys : DeleteJobCall(name)
    \/ \E name \in RegistryKeys, b \in BOOLEAN : EnableJobCall(name, b)
    \/ \E name \in RegistryKeys : StartJobCall(name)
    \/ \E taken \in BOOLEAN : HookStateChange(taken)
    \/ \E force \in BOOLEAN, data \in JobFiles : ReloadProfile(force, data)

KeysInit ==
    /\ ExecInit
    /\ Len(actions) = 1
    /\ run_condition = "None"
    /\ delay_between_runs = 0
    /\ ManagerIdle
    /\ AuxIdle

KeysSpec == KeysInit /\ [][KeysNext]_vars

(***************************************************************************)
(* JobManager called by one thread: the profiles.                          *)
(***************************************************************************)
ProfileInputs == {"default", "work", " work", " "}

\* The jobs of the profile files that are read.
ProfileJobFiles == {<<>>, <<DictEntry("a", NewJob("a", "", "", TRUE))>>}

SwitchProfile(profile_name, force_reload, read_ok, data, default_data) ==
    /\ registry' = RegistryLoadProfile(registry, profile_name, force_reload, read_ok,
                                       data, default_data)
    /\ UNCHANGED registryFrame

SaveCurrentProfileCall ==
    /\ registry' = CallReturned(ProfileSaved(registry), "save_current_profile")
    /\ UNCHANGED registryFrame

CreateProfileCall(profile_name, switch_to_it, read_ok, default_data) ==
    /\ registry' = CreateProfile(registry, profile_name, switch_to_it, read_ok, default_data)
    /\ UNCHANGED registryFrame

DeleteProfileCall(profile_name, deleted) ==
    /\ registry' = DeleteProfile(registry, profile_name, deleted)
    /\ UNCHANGED registryFrame

ProfileNext ==
    \/ \E p \in ProfileInputs, force \in BOOLEAN, ok \in BOOLEAN,
          data \in ProfileJobFiles, default_data \in ProfileJobFiles :
           SwitchProfile(p, force, ok, data, default_data)
    \/ SaveCurrentProfileCall
    \/ \E p \in ProfileInputs, switch \in BOOLEAN, ok \in BOOLEAN,
          default_data \in ProfileJobFiles :
           CreateProfileCall(p, switch, ok, default_data)
    \/ \E p \in ProfileInputs, deleted \in BOOLEAN : DeleteProfileCall(p, deleted)
    \/ CreateJobCall("a")
    \/ DeleteJobCall("a")
    \/ EnableJobCall("a", FALSE)

ProfileSpec == KeysInit /\ [][ProfileNext]_vars

(***************************************************************************)
(* OSInteractionClient._send_request: one request over the named pipe.     *)
(***************************************************************************)
\* What the line sent by the server is: an object with Status "Success",
\* with Status "Error", with another Status; text that is not JSON; JSON
\* that is not an object; bytes that are not UTF-8; nothing before the
\* newline.
LineKinds ==
    {"success", "error", "other_status", "not_json", "not_object", "not_utf8", "empty"}

\* What win32file.ReadFile does at one pass of the loop.
ReadEvents == {"data", "line_end", "zero_bytes", "broken_pipe", "win32_error"}

\* What win32file.WriteFile does.
WriteEvents == {"written", "broken_pipe", "win32_error"}

Ended(b, outcome, cause) ==
    [b EXCEPT !.phase = "ended", !.outcome = outcome, !.cause = cause]

\* python_csharp_bridge.py 145-173: one pass of the read loop. The
\* ConnectionAbortedError of line 154 and the ValueError of line 167 are
\* raised inside the try of line 146, whose last handler (172-173) turns
\* every Exception into IOError, which is OSError.
AfterRead(b, event) ==
    CASE event = "data" -> [b EXCEPT !.buffered = TRUE, !.reads = @ + 1]
      [] event = "line_end" ->
           IF b.line = "not_utf8" THEN Ended(b, "OSError", "line")
           ELSE [b EXCEPT !.phase = "line_read", !.reads = @ + 1]
      [] event = "zero_bytes" ->
           IF b.buffered THEN [b EXCEPT !.phase = "no_line", !.cause = "pipe_closed"]
           ELSE Ended(b, "OSError", "pipe_closed")
      [] event = "broken_pipe" -> Ended(b, "ConnectionAbortedError", "pipe_closed")
      [] OTHER -> Ended(b, "OSError", "win32_error")

\* python_csharp_bridge.py 175-200: after the loop. The line without its
\* newline is tested for truth, so an empty line counts as no line; a
\* JSON value that is not an object has no get(), and the AttributeError is
\* turned into RuntimeError by the handler of lines 205-207.
AfterLoop(b) ==
    IF b.phase = "line_read" /\ b.line # "empty"
    THEN CASE b.line = "success" -> Ended(b, "result", "line")
           [] b.line = "error" -> Ended(b, "RuntimeError", "line")
           [] b.line = "other_status" -> Ended(b, "ValueError", "line")
           [] b.line = "not_json" -> Ended(b, "ValueError", "line")
           [] OTHER -> Ended(b, "RuntimeError", "line")
    ELSE Ended(b, "TimeoutError",
               IF b.phase = "line_read" THEN "line" ELSE
               IF b.cause = "" THEN "timeout" ELSE b.cause)

\* python_csharp_bridge.py 117-119: _connect_to_pipe() returned a handle, or
\* INVALID_HANDLE_VALUE after its timeout.
BridgeConnect ==
    /\ bridge.phase = "called"
    /\ \E connected \in BOOLEAN :
         bridge' = IF connected THEN [bridge EXCEPT !.phase = "connected"]
                   ELSE Ended(bridge, "ConnectionRefusedError", "connect_failed")
    /\ UNCHANGED <<execVars, mgrVars, notBridge>>

\* python_csharp_bridge.py 121-139: the request is written once.
BridgeWrite ==
    /\ bridge.phase = "connected"
    /\ \E event \in WriteEvents :
         bridge' = CASE event = "written" ->
                          [bridge EXCEPT !.phase = "reading", !.written = @ + 1]
                     [] event = "broken_pipe" ->
                          Ended(bridge, "ConnectionAbortedError", "pipe_closed")
                     [] OTHER -> Ended(bridge, "OSError", "win32_error")
    /\ UNCHANGED <<execVars, mgrVars, notBridge>>

\* python_csharp_bridge.py 145-200: a pass of the read loop while the time is
\* not up, with what follows the loop when the pass leaves it.
BridgeRead ==
    /\ bridge.phase = "reading"
    /\ bridge.reads < MaxReads
    /\ \E event \in ReadEvents :
         /\ event = "data" => bridge.line # "empty"
         /\ event = "line_end" /\ bridge.line = "empty" => ~bridge.buffered
         /\ LET read == AfterRead(bridge, event)
            IN bridge' = IF read.phase \in {"line_read", "no_line"}
                         THEN AfterLoop(read) ELSE read
    /\ UNCHANGED <<execVars, mgrVars, notBridge>>

\* python_csharp_bridge.py 145, 192-200: the time is up at the head of the
\* loop.
BridgeTimeout ==
    /\ bridge.phase = "reading"
    /\ bridge' = AfterLoop(bridge)
    /\ UNCHANGED <<execVars, mgrVars, notBridge>>

\* The caller makes its next request, which the server will answer with a
\* line of some kind.
BridgeNextRequest ==
    /\ bridge.phase = "ended"
    /\ \E kind \in LineKinds : bridge' = [NoRequest EXCEPT !.line = kind]
    /\ UNCHANGED <<execVars, mgrVars, notBridge>>

BridgeNext ==
    \/ BridgeConnect
    \/ BridgeWrite
    \/ BridgeRead
    \/ BridgeTimeout
    \/ BridgeNextRequest

BridgeInit ==
    /\ ExecInit
    /\ Len(actions) = 1
    /\ run_condition = "None"
    /\ delay_between_runs = 0
    /\ ManagerIdle
    /\ CmIdle /\ DispatchIdle /\ PollIdle
    /\ registry = NoRegistry
    /\ AiIdle
    /\ \E kind \in LineKinds : bridge = [NoRequest EXCEPT !.line = kind]

BridgeSpec == BridgeInit /\ [][BridgeNext]_vars

(***************************************************************************)
(* Observer.lock, AI-brain mode and _monitored_conditions_map: the methods *)
(* of the Observer called by the user's thread and by the observer thread. *)
(* Observer.lock is a threading.Lock: a thread that holds it cannot take   *)
(* it again.                                                               *)
(***************************************************************************)
AiThreads == {"ui", "observer"}

\* The lists given to load_triggers, as the is_ai_trigger flags of their
\* Triggers.
AiTriggerLists == {<<>>, <<FALSE>>, <<TRUE>>, <<TRUE, FALSE>>}

\* How many flags of the list equal flag.
CountOf(list, flag) == Cardinality({i \in 1..Len(list) : list[i] = flag})

\* The thread t is at a "with self.lock" of the Observer.
AtLock(a, t) == a.pc[t] \in {"load_triggers", "refresh", "clear"}

\* The thread t starts the call of a method that begins at pc.
AiCalled(a, t, at, after) == [a EXCEPT !.pc[t] = at, !.then[t] = after]

\* observer.py 68-90: the body of load_triggers from "with self.lock" on, up
\* to the call of _refresh_monitored_conditions_list, made with the lock
\* held; without AI-brain mode the lock is released and the call returns.
LoadTriggers(a, t, triggers_from_profile) ==
    LET loaded == [a EXCEPT !._triggers = CountOf(triggers_from_profile, FALSE),
                            !._ai_triggers = CountOf(triggers_from_profile, TRUE)]
    IN IF a.ai_brain_mode_enabled
       THEN [AiCalled(loaded, t, "refresh", "load_triggers") EXCEPT !.lock = t]
       ELSE [loaded EXCEPT !.pc[t] = "idle"]

\* observer.py 113-125: the body of _refresh_monitored_conditions_list under
\* the lock: the map gets an entry False for every flagged shared condition.
\* The lock is released at the end, and once more by load_triggers when the
\* call came from there.
RefreshMonitoredConditionsList(a, t) ==
    [a EXCEPT !._monitored_conditions_map =
                  [i \in AiIds |-> IF a.shared_conditions[i] = "monitored"
                                  THEN "false" ELSE "absent"],
              !.lock = "free",
              !.pc[t] = "idle",
              !.then[t] = "idle"]

\* observer.py 98-106: set_ai_brain_mode_enable, up to the refresh or to the
\* "with self.lock" before the map is cleared.
SetAiBrainModeEnable(a, t, enabled) ==
    IF a.ai_brain_mode_enabled = enabled THEN a
    ELSE AiCalled([a EXCEPT !.ai_brain_mode_enabled = enabled], t,
                  IF enabled THEN "refresh" ELSE "clear", "idle")

\* observer.py 105-106: the map is cleared under the lock.
MapCleared(a, t) ==
    [a EXCEPT !._monitored_conditions_map = [i \in AiIds |-> "absent"],
              !.pc[t] = "idle"]

\* observer.py 126-148: start(), up to the refresh.
AiObserverStarted(a, t) ==
    IF a.running THEN a
    ELSE LET started == [a EXCEPT !.running = TRUE]
         IN IF a.ai_brain_mode_enabled
            THEN AiCalled(started, t, "refresh", "idle") ELSE started

\* observer.py 150-156: stop().
AiObserverStopped(a) == [a EXCEPT !.running = FALSE]

\* observer.py 236-255: _scan_monitored_conditions; results holds what
\* check() returns for each condition (False when it raises).
ScanMonitoredConditions(a, results) ==
    [a EXCEPT !._monitored_conditions_map =
        [i \in AiIds |->
            IF a._monitored_conditions_map[i] = "absent" THEN "absent"
            ELSE IF a.shared_conditions[i] = "monitored" THEN results[i]
            ELSE "absent"]]

\* The step just taken, for the properties.
Did(a, what) == [a EXCEPT !.last = what]

AiStep(a) ==
    /\ ai' = a
    /\ UNCHANGED <<execVars, mgrVars, notAi>>

\* JobManager.add_trigger, update_trigger, delete_trigger or load_profile
\* (job_manager.py 240, 411, 433, 445) calls Observer.load_triggers; on the
\* observer thread the caller is load_profile, for a SWITCH_PROFILE action.
CallLoadTriggers(t) ==
    /\ ai.pc[t] = "idle"
    /\ t = "observer" => ai.running
    /\ AiStep(Did(AiCalled(ai, t, "load_triggers", "idle"), "call"))

\* observer.py 72: load_triggers gets the lock.
LoadTriggersLocked(t) ==
    /\ ai.pc[t] = "load_triggers"
    /\ ai.lock = "free"
    /\ \E list \in AiTriggerLists : AiStep(Did(LoadTriggers(ai, t, list), "load_triggers"))

\* observer.py 113: _refresh_monitored_conditions_list gets the lock.
RefreshLocked(t) ==
    /\ ai.pc[t] = "refresh"
    /\ ai.lock = "free"
    /\ AiStep(Did(RefreshMonitoredConditionsList(ai, t), "refresh"))

\* job_manager.py 161-167: set_ai_brain_mode, from the main window.
SetAiBrainMode ==
    /\ ai.pc["ui"] = "idle"
    /\ \E enabled \in BOOLEAN :
         AiStep(Did(SetAiBrainModeEnable(ai, "ui", enabled), "set_ai_brain_mode"))

\* observer.py 105: the "with self.lock" of set_ai_brain_mode_enable(False).
ClearLocked(t) ==
    /\ ai.pc[t] = "clear"
    /\ ai.lock = "free"
    /\ AiStep(Did(MapCleared(ai, t), "clear"))

\* job_manager.py 141-159: start_observer and stop_observer.
AiStartObserver ==
    /\ ai.pc["ui"] = "idle"
    /\ ~ai.running
    /\ AiStep(Did(AiObserverStarted(ai, "ui"), "start"))

AiStopObserver ==
    /\ ai.pc["ui"] = "idle"
    /\ ai.running
    /\ AiStep(Did(AiObserverStopped(ai), "stop"))

\* job_manager.py 461-485: add_shared_condition, update_shared_condition and
\* delete_shared_condition change the shared conditions and save the
\* profile; they make no call of the Observer.
ChangeSharedCondition ==
    /\ ai.pc["ui"] = "idle"
    /\ \E i \in AiIds, to \in {"absent", "plain", "monitored"} :
         /\ ai.shared_conditions[i] # to
         /\ AiStep(Did([ai EXCEPT !.shared_conditions[i] = to], "shared_condition"))

\* observer.py 172-173: the periodic scan of _observer_loop.
Scan ==
    /\ ai.pc["observer"] = "idle"
    /\ ai.running
    /\ ai.ai_brain_mode_enabled
    /\ ai.lock = "free"
    /\ \E results \in [AiIds -> {"true", "false"}] :
         AiStep(Did(ScanMonitoredConditions(ai, results), "scan"))

AiNext ==
    \/ \E t \in AiThreads : CallLoadTriggers(t)
    \/ \E t \in AiThreads : LoadTriggersLocked(t)
    \/ \E t \in AiThreads : RefreshLocked(t)
    \/ SetAiBrainMode
    \/ \E t \in AiThreads : ClearLocked(t)
    \/ AiStartObserver
    \/ AiStopObserver
    \/ ChangeSharedCondition
    \/ Scan

AiInit ==
    /\ ExecInit
    /\ Len(actions) = 1
    /\ run_condition = "None"
    /\ delay_between_runs = 0
    /\ ManagerIdle
    /\ AuxIdle

AiSpec == AiInit /\ [][AiNext]_vars

(***************************************************************************)
(* The conditions of a Trigger: Trigger.check_conditions and               *)
(* Observer._check_ai_trigger_conditions.                                  *)
(***************************************************************************)
LOGIC_AND == "AND"
LOGIC_OR == "OR"

\* A Condition of a Trigger: its id, and what its check() does when called.
TriggerConditions == [id : AiIds, check : {"true", "false", "raises"}]

RECURSIVE SeqsUpTo(_, _)
\* The sequences over S of length n or less.
SeqsUpTo(S, n) ==
    IF n = 0 THEN {<<>>}
    ELSE LET shorter == SeqsUpTo(S, n - 1)
         IN shorter \cup {Append(q, x) : q \in {p \in shorter : Len(p) = n - 1}, x \in S}

\* trigger.py 98-120: the Triggers that the constructor accepts.
TriggerObjects ==
    [enabled : BOOLEAN, is_ai_trigger : BOOLEAN,
     condition_logic : {LOGIC_AND, LOGIC_OR},
     conditions : SeqsUpTo(TriggerConditions, MaxConditions),
     has_actions : BOOLEAN]

\* What a call returns, and how many times check() was called for it.
Result(value, checks) == [value |-> value, checks |-> checks]

RECURSIVE CheckLoop(_, _, _)
\* trigger.py 142-160: the loop of check_conditions from the condition i on,
\* with what follows the loop.
CheckLoop(t, i, results) ==
    IF i > Len(t.conditions)
    THEN IF results = <<>> THEN Result(FALSE, i - 1)
         ELSE Result(t.condition_logic = LOGIC_AND, i - 1)
    ELSE IF t.conditions[i].check = "raises"
    THEN IF t.condition_logic = LOGIC_AND THEN Result(FALSE, i)
         ELSE CheckLoop(t, i + 1, Append(results, FALSE))
    ELSE LET result == t.conditions[i].check = "true"
         IN IF t.condition_logic = LOGIC_OR /\ result THEN Result(TRUE, i)
            ELSE IF t.condition_logic = LOGIC_AND /\ ~result THEN Result(FALSE, i)
            ELSE CheckLoop(t, i + 1, Append(results, result))

\* trigger.py 126-160
CheckConditions(t) ==
    IF ~t.enabled THEN Result(FALSE, 0)
    ELSE IF t.is_ai_trigger THEN Result(FALSE, 0)
    ELSE IF t.conditions = <<>> THEN Result(t.has_actions, 0)
    ELSE CheckLoop(t, 1, <<>>)

\* The lookup with a missing id counting as true.
MapGet_MissingIsTrue(map, id) == map[id] # "false"

\* observer.py 269: self._monitored_conditions_map.get(id, False)
MapGet(map, id) == map[id] = "true"

\* all(results)
All(results) == \A i \in 1..Len(results) : results[i]

RECURSIVE AiCheckLoop(_, _, _, _)
\* observer.py 264-275: the loop of _check_ai_trigger_conditions from the
\* condition i on, with the return that follows the loop.
AiCheckLoop(t, map, i, results) ==
    IF i > Len(t.conditions)
    THEN IF results # <<>>
         THEN Result(t.condition_logic = LOGIC_AND /\ All(results), 0)
         ELSE Result(t.condition_logic = LOGIC_AND, 0)
    ELSE LET current_state == MapGet(map, t.conditions[i].id)
         IN IF t.condition_logic = LOGIC_OR /\ current_state THEN Result(TRUE, 0)
            ELSE IF t.condition_logic = LOGIC_AND /\ ~current_state THEN Result(FALSE, 0)
            ELSE AiCheckLoop(t, map, i + 1, Append(results, current_state))

\* observer.py 257-275
CheckAiTriggerConditions(t, map) ==
    IF ~t.enabled THEN Result(FALSE, 0)
    ELSE IF t.conditions = <<>>
    THEN Result(IF t.enabled THEN t.has_actions ELSE FALSE, 0)
    ELSE AiCheckLoop(t, map, 1, <<>>)

\* The Observer evaluates the conditions of the Trigger: with
\* Trigger.check_conditions (observer.py 189), and with
\* _check_ai_trigger_conditions (observer.py 177).
TriggerEvaluated ==
    /\ ~evaluation.evaluated
    /\ LET regular == CheckConditions(evaluation.trigger)
           by_map == CheckAiTriggerConditions(evaluation.trigger, evaluation.map)
       IN evaluation' =
              [evaluation EXCEPT !.evaluated = TRUE,
                                 !.check_conditions = regular.value,
                                 !.checks_called = regular.checks,
                                 !.ai_check = by_map.value,
                                 !.ai_checks_called = by_map.checks]
    /\ UNCHANGED <<execVars, mgrVars, notEvaluation>>

TriggerNext == TriggerEvaluated

\* The Observer holds some Trigger and some map of monitored conditions.
TriggerInit ==
    /\ ExecInit
    /\ Len(actions) = 1
    /\ run_condition = "None"
    /\ delay_between_runs = 0
    /\ ManagerIdle
    /\ CmIdle /\ DispatchIdle /\ PollIdle
    /\ registry = NoRegistry
    /\ bridge = NoRequest
    /\ ai = NoAi
    /\ \E t \in TriggerObjects, map \in [AiIds -> {"absent", "true", "false"}] :
         evaluation = [NoEvaluation EXCEPT !.trigger = t, !.map = map]

TriggerSpec == TriggerInit /\ [][TriggerNext]_vars

(***************************************************************************)
(* JobManager.delete_shared_condition on its own: the shared conditions,   *)
(* the actions of the job that refer to them, and the saved profile.       *)
(***************************************************************************)
\* condition_manager.py 139-144: the shared conditions written into the
\* profile file by save_current_profile, as the set of their ids.
SerializableIds(reg) ==
    {i \in RegistryIds : reg[i].present /\ reg[i].type # NONE_TYPE}

\* job_manager.py 473-485: delete_shared_condition; the result is the
\* registry, whether ValueError was raised, the value returned, and whether
\* save_current_profile was called.
JmDeleteSharedCondition(m, condition_id) ==
    IF IsConditionIdInUse(m, condition_id)
    THEN [reg |-> m.shared_conditions, raised |-> TRUE, result |-> FALSE, saved |-> FALSE]
    ELSE LET r == DeleteSharedCondition(m.shared_conditions, condition_id)
         IN [reg |-> r.reg, raised |-> FALSE, result |-> r.result, saved |-> r.result]

\* The call last made, and the shared conditions in the profile file.
DeleteCall(op, id, did_raise, result, file) ==
    [raised |-> did_raise, op |-> op, result |-> result, id |-> id, file |-> file]

\* The actions of a job, each with the shared condition it refers to.
ActionsWithConditions ==
    ListsOf({[PlainAction EXCEPT !.condition_id = c] : c \in {"None"} \cup ConditionIds},
            MaxActions)

deleteFrame == <<run_condition, delay_between_runs, job_running, is_executing,
                 stop_event, execution_thread, current_run_count, pc, threadLocals,
                 managerFields, notCm>>

\* gui/shared_condition_list.py 159-176: the user deletes a shared condition.
DeleteSharedConditionCalled ==
    /\ \E i \in ConditionIds \cup {"u1", ""} :
         LET r == JmDeleteSharedCondition(Manager, i)
         IN /\ shared_conditions' = r.reg
            /\ cm_call' = DeleteCall("delete_shared_condition", i, r.raised, r.result,
                                     IF r.saved THEN SerializableIds(r.reg)
                                     ELSE cm_call.file)
    /\ UNCHANGED <<actions, deleteFrame>>

\* job_manager.py 461-465: add_shared_condition, with save_current_profile.
SharedConditionAdded ==
    /\ \E i \in ConditionIds :
         LET r == AddOrUpdateSharedCondition(
                      shared_conditions,
                      CreateCondition([SharedColorCondition EXCEPT !.id = i], "u1").obj)
         IN /\ shared_conditions' = r.reg
            /\ cm_call' = DeleteCall("add_shared_condition", i, FALSE, r.result,
                                     IF r.result THEN SerializableIds(r.reg)
                                     ELSE cm_call.file)
    /\ UNCHANGED <<actions, deleteFrame>>

\* job_manager.py 343-374: update_job puts a Job with other actions in the
\* place of the job; the shared conditions are saved as they are.
JobActionsUpdated ==
    /\ \E as \in ActionsWithConditions \ {<<>>} :
         /\ as # actions
         /\ actions' = as
    /\ cm_call' = DeleteCall("update_job", "", FALSE, FALSE,
                             SerializableIds(shared_conditions))
    /\ UNCHANGED <<shared_conditions, deleteFrame>>

DeleteNext ==
    \/ DeleteSharedConditionCalled
    \/ SharedConditionAdded
    \/ JobActionsUpdated

\* A profile has been loaded: some shared conditions, and a job whose
\* actions refer to some of them.
DeleteInit ==
    /\ ExecInit
    /\ actions \in ActionsWithConditions \ {<<>>}
    /\ run_condition = "None"
    /\ delay_between_runs = 0
    /\ \E ids \in SUBSET ConditionIds :
         /\ ManagerConstructed(
                [j \in JobNames |-> [present |-> TRUE, enabled |-> TRUE, running |-> FALSE]],
                [n \in TriggerNames |-> NoTrigger],
                [is_list |-> TRUE,
                 items |-> IF ids = {} THEN <<>>
                           ELSE IF ids = ConditionIds
                           THEN <<SharedColorCondition, [SharedColorCondition EXCEPT !.id = "c2"]>>
                           ELSE <<[SharedColorCondition EXCEPT !.id = CHOOSE i \in ids : TRUE]>>])
         /\ cm_call = DeleteCall("", "", FALSE, FALSE, ids)
    /\ DispatchIdle /\ PollIdle /\ RegistryIdle

DeleteSpec == DeleteInit /\ [][DeleteNext]_vars

(***************************************************************************)
(* Properties of the JobExecutor.                                          *)
(***************************************************************************)
InPass == pc \in {"inner", "entry", "while", "executing", "retry_wait", "fb_loop", "ret"}

\* The action indices a visit of index i can lead to.
Successors(i) ==
    LET a == actions[i + 1]
    IN {IF a.met \in Int /\ a.met >= 0 THEN a.met ELSE i + 1,
        IF a.notmet \in Int /\ a.notmet >= 0 THEN a.notmet ELSE i + 1}
       \cap (0..(Len(actions) - 1))

RECURSIVE ReachableFrom(_, _)
\* The indices reachable from the set S in at most n jumps.
ReachableFrom(S, n) ==
    IF n = 0 THEN S
    ELSE ReachableFrom(S \cup UNION {Successors(i) : i \in S}, n - 1)

\* The jump targets form a cycle through two or more distinct actions.
HasMultiActionCycle ==
    \E i, j \in 0..(Len(actions) - 1) :
        /\ i # j
        /\ j \in ReachableFrom({i}, Len(actions))
        /\ i \in ReachableFrom({j}, Len(actions))

\* C1: whenever a top-level action is being processed, its index is inside the
\* list, and if another action was visited before it in this pass, the index is
\* the one chosen by that action's own condition result: the met target (or
\* index + 1) when its condition was met, the not-met target (or index + 1)
\* when it was not, whatever its fallbacks returned.
C1_JumpByMainCondition ==
    stack # <<>> =>
        /\ 0 <= current_action_index
        /\ current_action_index < Len(actions)
        /\ prev_visit.idx # NoneIdx =>
             LET a == actions[prev_visit.idx + 1]
                 t == IF prev_visit.met THEN a.met ELSE a.notmet
             IN current_action_index =
                    IF t \in Int /\ t >= 0 THEN t ELSE prev_visit.idx + 1

\* C1 witness: after a not-met action whose fallback succeeded, the interpreter
\* is at the explicit not-met target, which differs from the met target.
C1_Witness ==
    /\ stack # <<>>
    /\ prev_visit.idx # NoneIdx
    /\ ~prev_visit.met
    /\ prev_visit.result
    /\ actions[prev_visit.idx + 1].notmet = current_action_index
    /\ actions[prev_visit.idx + 1].met # current_action_index
    /\ current_action_index # prev_visit.idx + 1

TreatedAsNotMet(i) ==
    \/ stack[i].fbi >= 1
    \/ i = Len(stack) /\ pc = "ret" /\ ret.line \in {260, 266, 271}

\* C2: per visit an absolute action is executed at most 10 times, with one
\* retry wait before every attempt after the first, never again after a met
\* result, and it is treated as not met only after its 10th attempt; a
\* non-absolute action is executed at most once, and exactly once when it is
\* treated as met or not met.
C2_AbsoluteRetries ==
    \A i \in 1..Len(stack) :
        LET f == stack[i]
            limit == IF f.act.abs THEN 10 ELSE 1
        IN /\ f.calls <= limit
           /\ f.calls <= f.waits + 1
           /\ (i = Len(stack) /\ pc = "executing") => (~f.met /\ f.calls = f.waits + 1)
           /\ TreatedAsNotMet(i) => (f.calls = limit /\ ~f.met)
           /\ (i = Len(stack) /\ pc = "ret" /\ ret.line = 204) => (f.calls >= 1 /\ f.met)

\* C2 witness: an absolute action is treated as not met after 10 attempts.
C2_Witness ==
    /\ stack # <<>>
    /\ Top.act.abs
    /\ Top.calls = 10
    /\ Top.waits = 9
    /\ TreatedAsNotMet(Len(stack))

\* C3: a frame is in its fallback sequence only if its own condition ended not
\* met; while a fallback action is being processed it is the entry at the
\* loop's position, every earlier entry has been attempted once, in order, and
\* none of them reported met; a met report is the last attempt of a sequence.
C3_FallbackOrder ==
    \A i \in 1..Len(stack) :
        LET f == stack[i]
        IN /\ f.fbi >= 1 => ~f.met
           /\ f.fbres # <<>> => f.fbi >= 1
           /\ \A k \in 1..(Len(f.fbres) - 1) : f.fbres[k] # "met"
           /\ i < Len(stack) =>
                /\ f.fbi \in 1..Len(f.act.fb)
                /\ stack[i + 1].act = f.act.fb[f.fbi]
                /\ stack[i + 1].depth = f.depth + 1
                /\ Len(f.fbres) = f.fbi - 1
                /\ \A k \in 1..Len(f.fbres) : f.fbres[k] # "met"
                /\ ~f.any
           /\ (f.fbres # <<>> /\ f.fbres[Len(f.fbres)] = "met") =>
                (i = Len(stack) /\ pc = "ret" /\ f.any /\ ret.met)

\* C3 witness: the second fallback succeeded after the first failed, and a
\* sequence with a later entry was cut short by a success.
C3_Witness ==
    /\ stack # <<>>
    /\ pc = "ret"
    /\ Top.fbres = <<"met">>
    /\ Len(Top.act.fb) = 2
    /\ Len(stack) = 2

\* C4: no action at fallback depth above 3 is ever executed: a frame at depth
\* 4 makes no execute() call and returns not met from the depth check, and no
\* frame is deeper than 4.
C4_FallbackDepthBounded ==
    \A i \in 1..Len(stack) :
        LET f == stack[i]
        IN /\ f.depth = i - 1
           /\ f.depth <= 4
           /\ f.depth > 3 =>
                /\ f.calls = 0
                /\ f.fbi = 0
                /\ pc \in {"entry", "ret"}
                /\ pc = "ret" => (~ret.met /\ ret.line = 157)

\* C4 witness: a call at depth 4 is returning.
C4_Witness ==
    /\ Len(stack) = 5
    /\ Top.depth = 4
    /\ pc = "ret"

\* C5 (as claimed): every pass over the action list ends.
C5_EveryPassEnds == InPass ~> ~InPass

\* C5 (amended): every pass over a job whose jump targets form no cycle through
\* two or more distinct actions ends.
C5_PassEndsWithoutMultiActionCycle == (InPass /\ ~HasMultiActionCycle) ~> ~InPass

\* C5 witness: the loop heuristic stopped a self-jumping action.
C5_Witness ==
    /\ pc = "after_pass"
    /\ stop_event
    /\ ~raised
    /\ ~HasMultiActionCycle
    /\ Len(execution_history) >= 3
    /\ stack = <<>>
    /\ execution_history[Len(execution_history)] = execution_history[Len(execution_history) - 1]
    /\ execution_history[Len(execution_history)] = execution_history[Len(execution_history) - 2]

\* C6: a pass is in progress only if the run condition, consulted at its start,
\* let it start (check_continue returned true, or run_condition is None); when
\* check_continue returned false or raised, or the run condition has a wrong
\* type, the stop event is set, the job ends and no action is being processed;
\* a run_condition of None never refuses.
C6_RunConditionGates ==
    /\ InPass => should_continue \in {"none", "true"}
    /\ should_continue \in {"false", "raise", "wrongtype"} =>
         /\ stop_event
         /\ ~is_executing
         /\ pc \in {"finally", "done"}
         /\ stack = <<>>
    /\ run_condition = "None" => should_continue \in {"unset", "none"}
    /\ run_condition = "invalid" => should_continue \in {"unset", "wrongtype"}
    /\ run_condition = "JobRunCondition" =>
         should_continue \in {"unset", "true", "false", "raise"}

\* C6 witness: check_continue raised before the second pass.
C6_Witness ==
    /\ should_continue = "raise"
    /\ current_run_count = 1
    /\ pc = "done"

C8_ExceptionFatal ==
    /\ [](raised => (stop_event /\ ~is_executing /\ pc # "executing"))
    /\ [][raised => pc' \notin {"executing", "retry_wait"}]_vars
    /\ raised ~> (pc = "done" /\ ~job_running)

\* C8 witness: a fallback action at depth 2 raised.
C8_Witness ==
    /\ raised
    /\ pc = "ret"
    /\ Len(stack) = 3
    /\ ret.next = FatalIdx

(***************************************************************************)
(* Properties of the threads of the Observer and of the jobs.              *)
(***************************************************************************)
\* The threads that are inside Observer._observer_loop.
ObserverThreadsAlive == {t \in ObserverThreads : observer_threads[t] = "alive"}

\* The execution threads of the job named j that are alive.
ExecutionThreadsAlive(j) ==
    {e \in Executors : executors[e].job = j /\ executors[e].thread = "alive"}

\* C9: at most one thread is ever executing _observer_loop, however the
\* Observer is started and stopped (profile loads, profile switches requested
\* by a trigger on the observer thread, trigger CRUD).
C9_SingleObserverThread == Cardinality(ObserverThreadsAlive) <= 1

\* C10: for each job name at most one execution thread is alive at any time,
\* however the job is started and stopped (toggle, stop_job with or without
\* wait, a join that times out, hotkey, stop key, trigger).
C10_OneThreadPerJob == \A j \in JobNames : Cardinality(ExecutionThreadsAlive(j)) <= 1

(***************************************************************************)
(* Properties of the registries of JobManager.                             *)
(***************************************************************************)
\* C11: every change that an operation of JobManager makes to jobs, to
\* triggers or to the shared conditions is made while the calling thread
\* holds JobManager.lock.
C11_RegistriesChangedUnderLock == ~unlocked_write


(***************************************************************************)
(* Properties of ConditionManager.                                         *)
(***************************************************************************)
\* No entry of the registry is a NoneCondition.
NoNoneConditionIn(reg) ==
    \A i \in RegistryIds : reg[i].present => reg[i].type # NONE_TYPE

\* create_condition makes a NoneCondition of the data d.
MakesNone(d, uuid) ==
    /\ d.is_dict
    /\ \/ d.type = NONE_TYPE
       \/ /\ ~CreateCondition(d, uuid).raised
          /\ CreateCondition(d, uuid).obj.type = NONE_TYPE

\* The call would put a NoneCondition under the id i of the registry reg.
AddsNoneAt(call, i) ==
    /\ call.op = "add_or_update_shared_condition"
    /\ call.obj.present
    /\ call.obj.type = NONE_TYPE
    /\ call.obj.id = i

UpdatesToNoneAt(call, reg, i) ==
    /\ call.op = "update_shared_condition_from_data"
    /\ call.id = i
    /\ call.data.is_dict
    /\ MakesNone(UpdatedConditionData(reg, i, call.data), "u1")

\* The items of the list of a call of load_shared_conditions of which
\* create_condition makes a NoneCondition with the id i.
NoneItemsAt(call, i) ==
    {k \in 1..Len(call.list.items) :
        /\ MakesNone(call.list.items[k], Uuids[k])
        /\ i = IF call.list.items[k].id # "" THEN call.list.items[k].id ELSE Uuids[k]}

LoadsNoneAt(call, i) ==
    /\ call.op = "load_shared_conditions"
    /\ call.list.is_list
    /\ NoneItemsAt(call, i) # {}

\* What the other items of the list make for the id i.
OthersAt(call, i) ==
    {CreateCondition(call.list.items[k], Uuids[k]).obj :
        k \in {n \in 1..Len(call.list.items) :
                 /\ call.list.items[n].is_dict
                 /\ ~MakesNone(call.list.items[n], Uuids[n])
                 /\ ~CreateCondition(call.list.items[n], Uuids[n]).raised
                 /\ CreateCondition(call.list.items[n], Uuids[n]).obj.id = i}}

\* add_or_update_shared_condition and update_shared_condition_from_data
\* reject a NoneCondition: they return False and change nothing.
NoneRejected ==
    \A i \in RegistryIds :
        AddsNoneAt(cm_call', i) \/ UpdatesToNoneAt(cm_call', shared_conditions, i)
            => ~cm_call'.result /\ shared_conditions' = shared_conditions

Malformed(d) ==
    \/ ~d.is_dict
    \/ d.type = ""
    \/ d.type \notin ConditionClasses
    \/ d.type # NONE_TYPE /\ d.params = "raises"
    \/ d.params = "bad_region"

\* C13: create_condition never raises on malformed data, and check() of the
\* Condition it returns for malformed data is False.
C13_MalformedDegradesToFalse ==
    Malformed(cm_call.data) =>
        /\ cm_call.op = "create_condition" => ~cm_call.raised
        /\ cm_call.op = "check" => ~cm_call.result

(***************************************************************************)
(* Properties of Observer._execute_triggered_actions.                      *)
(***************************************************************************)
\* The call that an action stands for: none without a target.
CallOf(a) ==
    IF a.target = "" THEN NoCall
    ELSE CASE a.action_type = "start_job" -> [target |-> a.target, op |-> "start_job"]
           [] a.action_type = "stop_job" ->
                IF Lower(a.target) = "all"
                THEN [target |-> "", op |-> "stop_all_running_jobs"]
                ELSE [target |-> a.target, op |-> "stop_job"]
           [] a.action_type = "switch_profile" ->
                [target |-> a.target, op |-> "load_profile"]
           [] OTHER -> NoCall

RECURSIVE CallsOf(_)
\* The calls that the actions of a list stand for, in the order of the list.
CallsOf(as) ==
    IF as = <<>> THEN <<>>
    ELSE IF CallOf(Head(as)) = NoCall THEN CallsOf(Tail(as))
    ELSE <<CallOf(Head(as))>> \o CallsOf(Tail(as))

\* The calls made so far, without what became of them.
CallsMade ==
    [k \in 1..Len(dispatch.made) |->
        [target |-> dispatch.made[k].target, op |-> dispatch.made[k].op]]

LoadProfileCalled(k) == dispatch.made[k].op = "load_profile"

\* No action after the one of the call k has been gone through.
NothingAfter(k) == dispatch.next <= dispatch.made[k].index + 1

PauseOrResumeDispatched ==
    /\ dispatch.ended = "running"
    /\ dispatch.batch[dispatch.next].action_type \in {"pause_job", "resume_job"}
    /\ dispatch'.next = dispatch.next + 1

\* C27: dispatching a PAUSE_JOB or RESUME_JOB action calls no operation of
\* JobManager and leaves the jobs, running_executors, the executors with
\* their stop events, the running and enabled flags and the active profile
\* as they were.
C27_PauseResumeChangeNothing ==
    [][PauseOrResumeDispatched =>
          /\ dispatch'.made = dispatch.made
          /\ CallFor(dispatch.batch[dispatch.next]) = NoCall
          /\ UNCHANGED <<jobs, running_executors, executors, current_profile_name,
                         triggers, job_running, stop_event>>]_vars

\* A PAUSE_JOB action with the target j1 has been gone through, no call was
\* made for it, and the batch goes on with a RESUME_JOB action.
C27_Witness ==
    /\ Len(dispatch.batch) = 2
    /\ dispatch.batch[1] = TriggerAction("pause_job", "j1")
    /\ dispatch.batch[2] = TriggerAction("resume_job", "j1")
    /\ dispatch.next = 2
    /\ dispatch.made = <<>>
    /\ dispatch.ended = "running"

(***************************************************************************)
(* Properties of the polling of a Trigger.                                 *)
(***************************************************************************)
\* C15: two successive evaluations of an enabled Trigger by the loop are at
\* least check_interval_seconds apart, whether or not the Trigger has
\* conditions.
C15_EvaluationsIntervalApart ==
    poll.evaluations >= 2 =>
        poll.evaluated_at - poll.evaluated_before_at >= poll.check_interval_seconds

(***************************************************************************)
(* Properties of the profiles.                                             *)
(***************************************************************************)
\* C16: the data in memory is the data of the profile named by
\* current_profile_name, also after load_profile has fallen back to the
\* default profile, so that save_current_profile writes each profile file
\* with data that came from that profile.
C16_LoadedDataIsOfCurrentProfile ==
    /\ registry.loaded_from = registry.current_profile_name
    /\ \A p \in ProfileNames :
         registry.files[p].exists => registry.files[p].data_of = p

(***************************************************************************)
(* Properties of the jobs registry and of the key bindings.                *)
(***************************************************************************)
KeysAreNames(r) ==
    /\ \A i \in 1..Len(r.jobs) : r.jobs[i].job.name = r.jobs[i].key
    /\ \A i, j \in 1..Len(r.jobs) : r.jobs[i].key = r.jobs[j].key => i = j

\* The call that made t of r was refused with ValueError and changed nothing.
Refused(r, t) ==
    /\ t.call.raised = "ValueError"
    /\ t.jobs = r.jobs
    /\ t.running_executors = r.running_executors
    /\ t._bound_hotkeys = r._bound_hotkeys
    /\ t._bound_stopkeys = r._bound_stopkeys

DuplicatesRefused ==
    /\ \A name \in NameInputs :
         HasKey(registry.jobs, Strip(name)) => Refused(registry, CreateJob(registry, name))
    /\ \A job \in JobObjects :
         HasKey(registry.jobs, Strip(job.name)) => Refused(registry, AddJob(registry, job))
    /\ \A original_name \in NameInputs, job \in JobObjects :
         (/\ Strip(job.name) # Strip(original_name)
          /\ HasKey(registry.jobs, Strip(job.name)))
         => Refused(registry, UpdateJob(registry, original_name, job))

RefusalChangesNothing ==
    (/\ registry'.call.op \in {"create_job", "add_job", "update_job"}
     /\ registry'.call.raised = "ValueError")
    => Refused(registry, registry')

\* C17: every key of the jobs registry maps to a job of that name, keys are
\* distinct, and create_job, add_job and update_job called with a name that
\* is taken raise ValueError and leave the jobs, the running executors and
\* the key bindings as they were.
C17_JobNameIsUniqueKey ==
    /\ [](KeysAreNames(registry) /\ DuplicatesRefused)
    /\ [][RefusalChangesNothing]_vars

\* An update_job that renames a job onto the name of another job has been
\* refused while a job was running and a key was bound.
C17_Witness ==
    /\ registry.call = [raised |-> "ValueError", op |-> "update_job"]
    /\ Len(registry.jobs) = 2
    /\ registry.running_executors # {}
    /\ \E k \in CleanKeys : registry._bound_hotkeys[k] # NotBound

NoBindings(r) ==
    \A k \in CleanKeys : r._bound_hotkeys[k] = NotBound /\ r._bound_stopkeys[k] = NotBound

BoundToAnother(r, k, name) ==
    \/ r._bound_hotkeys[k] \notin {NotBound, name}
    \/ r._bound_stopkeys[k] \notin {NotBound, name}

HotkeyBound(r, job) ==
    LET k == CleanKey(job.hotkey)
    IN k # "" => r._bound_hotkeys[k] = job.name \/ BoundToAnother(r, k, job.name)

StopKeyBound(r, job) ==
    LET k == CleanKey(job.stop_key)
    IN k # "" => r._bound_stopkeys[k] = job.name \/ BoundToAnother(r, k, job.name)

HookReleased == registry._is_globally_recording_keys /\ ~registry'._is_globally_recording_keys

\* A notification that repeats the last one changes nothing but the record
\* of the call.
SameNotificationTwice ==
    \A taken \in BOOLEAN :
        LET once == HandleGlobalKeyHookStateChange(registry, taken)
        IN HandleGlobalKeyHookStateChange(once, taken) = once

C19_OneTypedOutcome ==
    bridge.phase = "ended" =>
        /\ bridge.outcome = "result" <=> (bridge.cause = "line" /\ bridge.line = "success")
        /\ bridge.cause = "line" /\ bridge.line = "error" => bridge.outcome = "RuntimeError"
        /\ (/\ bridge.cause = "line"
            /\ bridge.line \in {"other_status", "not_json", "not_utf8", "empty"})
           => bridge.outcome = "ValueError"
        /\ bridge.cause = "timeout" => bridge.outcome = "TimeoutError"
        /\ bridge.cause = "connect_failed" => bridge.outcome = "ConnectionRefusedError"
        /\ bridge.cause = "pipe_closed" => bridge.outcome = "ConnectionAbortedError"
        /\ bridge.written <= 1

(***************************************************************************)
(* Properties of the loop heuristic.                                       *)
(***************************************************************************)
\* The last three visits of the pass have one signature.
ThirdVisitInARow ==
    /\ Len(execution_history) >= 3
    /\ \A i \in (Len(execution_history) - 2)..Len(execution_history) :
         execution_history[i] = execution_history[Len(execution_history)]

\* A top-level action is being executed.
ActionExecuting == stack # <<>>

\* The step is the one in which the heuristic stops the job.
HeuristicStops == pc = "inner" /\ pc' = "after_pass" /\ ~stop_event /\ stop_event'

\* The heuristic stops the job at the third visit in a row, before the
\* action is executed; it stops it at no other visit; a pass starts with an
\* empty history.
HeuristicFiresOnThirdVisit ==
    /\ [](ActionExecuting => ~ThirdVisitInARow)
    /\ [][/\ HeuristicStops =>
              ThirdVisitInARow' /\ ~is_executing' /\ ~ActionExecuting'
          /\ pc = "inner" /\ ThirdVisitInARow' /\ execution_history' # execution_history
             => HeuristicStops
          /\ pc = "loop" /\ pc' = "inner" => execution_history' = <<>>]_vars

\* The visits of action idx in this pass that led to its execution.
Executions(idx) ==
    Cardinality({i \in 1..Len(execution_history) : execution_history[i] = Signature(idx)})
    - (IF ~ActionExecuting /\ LoopDetected(execution_history, Signature(idx)) THEN 1 ELSE 0)

\* Action idx has jumped to itself in this pass.
SelfJumping(idx) ==
    /\ actions[idx + 1].met = idx \/ actions[idx + 1].notmet = idx
    /\ \E i \in 1..(Len(execution_history) - 1) :
         execution_history[i] = Signature(idx) /\ execution_history[i + 1] = Signature(idx)

\* C20 as stated: the heuristic fires exactly on the third visit in a row,
\* and an action that jumps to itself is executed at most twice in a pass.
C20_SelfJumpTwicePerPass ==
    /\ HeuristicFiresOnThirdVisit
    /\ [](\A idx \in 0..(Len(actions) - 1) : SelfJumping(idx) => Executions(idx) <= 2)

\* C20, amended: an action is executed at most twice in a row; it may be
\* executed again in the same pass after another action has been visited.
C20_LoopHeuristicThirdVisit == HeuristicFiresOnThirdVisit

\* The heuristic has just stopped the job at the third visit in a row of
\* an action that jumps to itself.
C20_Witness ==
    /\ pc = "after_pass"
    /\ ThirdVisitInARow
    /\ stop_event /\ ~is_executing
    /\ SelfJumping(current_action_index)
    /\ Executions(current_action_index) = 2

(***************************************************************************)
(* Properties of running_executors and of the execution threads.           *)
(***************************************************************************)
\* job_manager.py 547-548: is_job_running(name).
IsJobRunning(m, name) == m.running_executors[name] # NoExecutor

\* The execution thread of the executor e has ended while nobody had asked
\* it to stop, the Job object it ran is still the one in jobs and still
\* enabled, and no call of JobManager is in progress.
EndedOnItsOwn(e) ==
    LET x == executors[e]
    IN /\ x.thread = "dead"
       /\ ~x.stop_event
       /\ ~x.stale
       /\ jobs[x.job].present /\ jobs[x.job].enabled
       /\ calls = <<>>
       /\ lock = NoThread

\* start_job(name) leaves the job with a registered executor whose thread
\* is alive and which is not the executor e.
StartsNewThread(name, e) ==
    LET after == StartJob(Manager, name)
        n == after.running_executors[name]
    IN /\ n # NoExecutor
       /\ n # e
       /\ after.executors[n].thread = "alive"

\* C21: after the execution thread of a job has ended on its own,
\* is_job_running(name) is false and a following start_job(name) on the
\* still enabled job starts a new execution thread.
C21_RegistryFollowsThread ==
    \A e \in Executors :
        EndedOnItsOwn(e) =>
            /\ ~IsJobRunning(Manager, executors[e].job)
            /\ StartsNewThread(executors[e].job, e)

\* A stop_job in progress has taken the executor e out of running_executors
\* and is about to call its stop().
BeingStopped(e) ==
    \E i \in 1..Len(calls) :
        calls[i].op = "stop_job" /\ calls[i].pc = "stop" /\ calls[i].ex = e

\* The executor e is one that stop_job can still reach, one that a stop_job
\* is stopping, or one that has been told to stop.
Stoppable(e) ==
    \/ \E j \in JobNames : running_executors[j] = e
    \/ BeingStopped(e)
    \/ executors[e].stop_event

\* C22: however start_job and stop_job of different threads interleave,
\* every execution thread that is alive belongs to an executor that is in
\* running_executors or whose stop event is set (or is being set by the
\* stop_job that has just taken the executor out).
C22_NoOrphanThread ==
    \A e \in Executors : executors[e].thread = "alive" => Stoppable(e)

(***************************************************************************)
(* Properties of Observer.lock and of the map of monitored conditions.     *)
(***************************************************************************)
\* The thread t waits for Observer.lock while it holds it.
WaitsForOwnLock(t) == AtLock(ai, t) /\ ai.lock = t

\* C23: no call path of load_triggers, set_ai_brain_mode_enable, start or
\* _refresh_monitored_conditions_list tries to take Observer.lock on a thread
\* that already holds it, with AI-brain mode enabled or disabled, so that
\* load_triggers always returns.
C23_LoadTriggersReturns == \A t \in AiThreads : ~WaitsForOwnLock(t)

\* The map has an entry for exactly the shared conditions that are flagged
\* is_monitored_by_ai_brain.
MapFollowsFlags ==
    \A i \in AiIds :
        ai._monitored_conditions_map[i] # "absent" <=> ai.shared_conditions[i] = "monitored"

\* No thread is inside a call of the Observer.
NoCallOfObserver == \A t \in AiThreads : ai.pc[t] = "idle"

\* C24: while AI-brain mode is enabled and the Observer is running, after a
\* scan (made while no call of the Observer is in progress) every flagged
\* shared condition has an entry in _monitored_conditions_map, also one added
\* or flagged after the mode was enabled, and a deleted or unflagged one has
\* none; after the mode is disabled the map is empty.
C24_MonitoredConditionsCached ==
    /\ ai.last = "scan" /\ NoCallOfObserver => MapFollowsFlags
    /\ ai.last = "clear" => \A i \in AiIds : ai._monitored_conditions_map[i] = "absent"

(***************************************************************************)
(* Properties of the conditions of a Trigger.                              *)
(***************************************************************************)
\* The values of the conditions of the Trigger evaluated: what check()
\* gives, a raise counting as false.
CheckedValues ==
    [i \in 1..Len(evaluation.trigger.conditions) |->
        evaluation.trigger.conditions[i].check = "true"]

\* The values of the conditions in the map of the Observer, a missing id
\* counting as false.
CachedValues ==
    [i \in 1..Len(evaluation.trigger.conditions) |->
        evaluation.map[evaluation.trigger.conditions[i].id] = "true"]

\* What the claim gives for the Trigger t with the values vals.
Combined(t, vals) ==
    IF ~t.enabled THEN FALSE
    ELSE IF t.conditions = <<>> THEN t.has_actions
    ELSE IF t.condition_logic = LOGIC_AND
    THEN \A i \in 1..Len(vals) : vals[i]
    ELSE \E i \in 1..Len(vals) : vals[i]

\* C25: a disabled trigger evaluates to false; an enabled one with
\* conditions to the AND or the OR of their values, taken from check() for a
\* regular trigger (a raise counting as false) and from the cached map for
\* an AI trigger (a missing id counting as false, check() not called); one
\* without conditions to true exactly when it has an action;
\* Trigger.check_conditions is false for every AI trigger.
C25_TriggerConditionLogic ==
    evaluation.evaluated =>
        LET t == evaluation.trigger
        IN /\ ~t.is_ai_trigger =>
                evaluation.check_conditions = Combined(t, CheckedValues)
           /\ t.is_ai_trigger =>
                /\ evaluation.ai_check = Combined(t, CachedValues)
                /\ evaluation.ai_checks_called = 0
                /\ ~evaluation.check_conditions
                /\ evaluation.checks_called = 0
           /\ ~t.enabled => ~evaluation.check_conditions /\ ~evaluation.ai_check

\* An enabled AI trigger with logic OR whose first condition has no entry in
\* the map and whose second one is cached as true has evaluated to true,
\* although the check() of that condition would have given false.
C25_Witness ==
    /\ evaluation.evaluated
    /\ evaluation.trigger.enabled
    /\ evaluation.trigger.is_ai_trigger
    /\ evaluation.trigger.condition_logic = LOGIC_OR
    /\ Len(evaluation.trigger.conditions) = 2
    /\ evaluation.map[evaluation.trigger.conditions[1].id] = "absent"
    /\ evaluation.map[evaluation.trigger.conditions[2].id] = "true"
    /\ evaluation.trigger.conditions[2].check = "false"
    /\ evaluation.ai_check


(***************************************************************************)
(* Properties of JobManager.delete_shared_condition.                       *)
(***************************************************************************)
\* Some action of the job refers to the shared condition id.
ReferredTo(id) == \E i \in 1..Len(actions) : actions[i].condition_id = id

\* C28: delete_shared_condition(id) never removes a condition that is in
\* use.  When an action of a job refers to id the call raises ValueError and
\* the shared conditions and the saved profile stay as they were; when no
\* action refers to id and id is unknown the call returns False and changes
\* nothing; the shared conditions change only when no action refers to id,
\* and then exactly id is removed, True is returned and the profile written
\* is the one without id.
C28_DeleteSharedConditionInUse ==
    [][DeleteSharedConditionCalled =>
         LET id == cm_call'.id
             unchanged == /\ shared_conditions' = shared_conditions
                          /\ cm_call'.file = cm_call.file
         IN /\ ReferredTo(id) => cm_call'.raised /\ unchanged
            /\ (~ReferredTo(id) /\ (id = "" \/ ~shared_conditions[id].present))
                 => ~cm_call'.raised /\ ~cm_call'.result /\ unchanged
            /\ shared_conditions' # shared_conditions
                 => /\ ~ReferredTo(id)
                    /\ shared_conditions[id].present
                    /\ ~shared_conditions'[id].present
                    /\ \A o \in RegistryIds \ {id} :
                         shared_conditions'[o] = shared_conditions[o]
                    /\ cm_call'.result /\ ~cm_call'.raised
                    /\ cm_call'.file = SerializableIds(shared_conditions')
    ]_vars

\* The deletion of c1 was refused while the second action of the job refers
\* to it, and c1 is still among the shared conditions and in the profile.
C28_Witness ==
    /\ cm_call.op = "delete_shared_condition"
    /\ cm_call.id = "c1"
    /\ cm_call.raised
    /\ Len(actions) = 2
    /\ actions[1].condition_id # "c1"
    /\ actions[2].condition_id = "c1"
    /\ shared_conditions["c1"].present
    /\ "c1" \in cm_call.file


(***************************************************************************)
(* Properties of running_executors and the jobs registry.                  *)
(***************************************************************************)
\* Every name in running_executors is the key of an enabled job, in the
\* JobManager that one thread calls.
RegisteredAreEnabledJobs ==
    \A name \in registry.running_executors :
        /\ HasKey(registry.jobs, name)
        /\ Get(registry.jobs, name).enabled

\* The same while threads interleave: whenever JobManager.lock is free, every
\* name in running_executors is the key of an enabled job.
RegisteredAreEnabledJobsWhenLockFree ==
    lock = NoThread =>
        \A j \in JobNames :
            running_executors[j] # NoExecutor => jobs[j].present /\ jobs[j].enabled

\* start_job on a missing or disabled job raises ValueError and registers
\* nothing.
StartJobRefusesMissingOrDisabled ==
    \A name \in RegistryKeys :
        (~HasKey(registry.jobs, name) \/ ~Get(registry.jobs, name).enabled)
            => /\ JobStarted(registry, name).call.raised = "ValueError"
               /\ JobStarted(registry, name).running_executors
                    = registry.running_executors

\* C29: only existing, enabled jobs are registered as running, and
\* load_profile stops the executor of every job before it replaces the jobs:
\* every execution thread that is alive and belongs to a job that
\* load_profile has replaced has its stop event set.
C29_ReplacedJobsAreStopped ==
    \A e \in Executors :
        (executors[e] # NoExecutorObject /\ executors[e].stale
            /\ executors[e].thread = "alive" /\ ~BeingStopped(e))
        => executors[e].stop_event


(***************************************************************************)
(* Properties of the key bindings.                                         *)
(***************************************************************************)
\* The key k is bound in the dict bound to a job that is in the jobs
\* registry under the name bound, is enabled, and has key as the key of
\* that kind.
BoundToItsJob(bound, k, key) ==
    bound[k] # NotBound =>
        /\ HasKey(registry.jobs, bound[k])
        /\ Get(registry.jobs, bound[k]).name = bound[k]
        /\ Get(registry.jobs, bound[k]).enabled
        /\ CleanKey(key[bound[k]]) = k

\* C30: after any sequence of create_job, add_job, update_job, enable_job,
\* delete_job and load_profile (and of start_job and changes of the keyboard
\* hook), no key is in both _bound_hotkeys and _bound_stopkeys, and each
\* bound key is bound to a job that is in the jobs registry, is enabled and
\* has that key as its hotkey (in _bound_hotkeys) or its stop key (in
\* _bound_stopkeys).
C30_KeyBindingsConsistent ==
    LET hotkey == [n \in RegistryKeys |->
                     IF HasKey(registry.jobs, n) THEN Get(registry.jobs, n).hotkey ELSE ""]
        stop_key == [n \in RegistryKeys |->
                       IF HasKey(registry.jobs, n) THEN Get(registry.jobs, n).stop_key ELSE ""]
    IN \A k \in CleanKeys :
         /\ ~(registry._bound_hotkeys[k] # NotBound /\ registry._bound_stopkeys[k] # NotBound)
         /\ BoundToItsJob(registry._bound_hotkeys, k, hotkey)
         /\ BoundToItsJob(registry._bound_stopkeys, k, stop_key)

\* update_job has given the job b the hotkey F1, which stays bound to the job
\* a as a stop key, while another stop key of b is bound.
C30_Witness ==
    /\ registry.call = [raised |-> "", op |-> "update_job"]
    /\ HasKey(registry.jobs, "a") /\ HasKey(registry.jobs, "b")
    /\ Get(registry.jobs, "b").enabled
    /\ Get(registry.jobs, "b").hotkey = "F1"
    /\ Get(registry.jobs, "b").stop_key = "f2"
    /\ registry._bound_stopkeys["f1"] = "a"
    /\ registry._bound_hotkeys["f1"] = NotBound
    /\ registry._bound_stopkeys["f2"] = "b"

=============================================================================
